---- MODULE Spec2Model ----
(***************************************************************************)
(* Model of gcp.maps: the wire/domain codecs of places.py (opening hours, *)
(* field mask, value objects, Place) and the request operations of        *)
(* _client.py.                                                            *)
(*                                                                         *)
(* Conventions                                                             *)
(*   - a Python str that is transformed character by character (field     *)
(*     names, dict keys, enum names) is a sequence of one-character       *)
(*     strings; a str that is only carried around is a TLA+ string;       *)
(*   - None is the empty tuple and a present optional value v is <<v>>,   *)
(*     except for times of day, which are the pair <<hour, minute>>;      *)
(*   - a call that returns is [ok |-> TRUE, ...], a call that raises is   *)
(*     [ok |-> FALSE, err |-> <exception class>, ...];                    *)
(*   - a Python list indexed from 0 that the code indexes by number is a  *)
(*     function on 0..n-1.                                                *)
(***************************************************************************)
EXTENDS Integers, Sequences, FiniteSets, TLC

VARIABLES
    op,     \* the conversion applied so far ("idle" before it is applied)
    arg,    \* the argument the conversion is applied to
    ret,    \* what the conversion returned or raised (NotRun before)
    client, \* the Client object: its API key and its session
    calls,  \* for every caller, the operation call it runs and how far it is
    sent    \* the requests handed to the session so far, in order

vars == <<op, arg, ret, client, calls, sent>>

None == <<>>

NotRun == [ok |-> FALSE, err |-> "not run"]

Returned(r) == r.ok

Raised(r, cls) == (~r.ok) /\ r.err = cls

(***************************************************************************)
(* Bounds of the model                                                     *)
(***************************************************************************)
MaxPeriods == 2

MaxFields == 3

MaxKeys == 3

(***************************************************************************)
(* OpeningHours.from_api_format                                            *)
(***************************************************************************)
Days == 0..6

\* datetime.time(hour, minute)
Time(hour, minute) == <<hour, minute>>

\* periods = [[] for _ in range(7)]
EmptyBuckets == [d \in Days |-> <<>>]

\* period.get("close") is None
CloseIsNone(period) == "close" \notin DOMAIN period

\* for i in range(7): periods[i].append((None, None))
OpenAllWeek(periods) == [d \in Days |-> Append(periods[d], <<None, None>>)]

\* periods[start_day].append((s, e))
SameDay(periods, start, end) ==
    [periods EXCEPT ![start.day] =
        Append(@, <<Time(start.hour, start.minute), Time(end.hour, end.minute)>>)]

\* the tuple appended for day i of a span start_day..end_day
SpanEntry(i, start, end) ==
    IF i = start.day THEN <<Time(start.hour, start.minute), None>>
    ELSE IF i = end.day THEN <<None, Time(end.hour, end.minute)>>
    ELSE <<None, None>>

\* range(start_day, end_day + 1)
SpanRange(start_day, end_day) == start_day..end_day

\* for i in range(start_day, end_day + 1): periods[i].append((s, e))
SpanDays(periods, start, end) ==
    [d \in Days |->
        IF d \in SpanRange(start.day, end.day)
        THEN Append(periods[d], SpanEntry(d, start, end))
        ELSE periods[d]]

\* (variant: the Sunday-first buckets are returned as they are)
RotateToMonday_none(periods) == periods

\* periods = periods[1:] + [periods[0]]
RotateToMonday(periods) ==
    [j \in Days |-> IF j < 6 THEN periods[j + 1] ELSE periods[0]]

\* (variant: the length of the list is not looked at)
NotOnlyPeriod_unchecked(all) == FALSE

\* if len(data["periods"]) > 1: raise RuntimeError
NotOnlyPeriod(all) == Len(all) > 1

RECURSIVE PeriodLoop(_, _, _)
\* the body of "for period in data['periods']", from period number i on
PeriodLoop(all, i, periods) ==
    IF i > Len(all) THEN [ok |-> TRUE, periods |-> periods]
    ELSE LET period == all[i] IN
        IF CloseIsNone(period)
        THEN IF NotOnlyPeriod(all)
             THEN [ok |-> FALSE, err |-> "RuntimeError"]
             ELSE [ok |-> TRUE, periods |-> OpenAllWeek(periods)]
        ELSE IF period.open.day = period.close.day
             THEN PeriodLoop(all, i + 1, SameDay(periods, period.open, period.close))
             ELSE PeriodLoop(all, i + 1, SpanDays(periods, period.open, period.close))

\* cls(periods, weekday_descriptions) on the buckets the loop r has filled
HoursOf(r, weekday_descriptions) ==
    IF r.ok
    THEN [ok |-> TRUE,
          val |-> [cls |-> "OpeningHours",
                   periods |-> RotateToMonday(r.periods),
                   weekday_descriptions |-> weekday_descriptions]]
    ELSE r

OpeningHours_from_api_format(data) ==
    HoursOf(PeriodLoop(data.periods, 1, EmptyBuckets), data.weekdayDescriptions)

\* ---- inputs ----
OpenTimes == {[hour |-> 9, minute |-> 0], [hour |-> 23, minute |-> 15]}
CloseTimes == {[hour |-> 17, minute |-> 30]}

DayTimes(times) == {[day |-> d, hour |-> t.hour, minute |-> t.minute] : d \in Days, t \in times}

WirePeriods ==
    {[open |-> o, close |-> c] : o \in DayTimes(OpenTimes), c \in DayTimes(CloseTimes)}
    \cup {[open |-> o] : o \in DayTimes(OpenTimes)}

RECURSIVE SeqsUpTo(_, _)
\* the sequences of at most n elements of S
SeqsUpTo(S, n) ==
    IF n = 0 THEN {<<>>}
    ELSE LET shorter == SeqsUpTo(S, n - 1) IN
         shorter \cup {Append(s, x) : s \in shorter, x \in S}

HoursInputs ==
    {[periods |-> ps, weekdayDescriptions |-> "descriptions"] : ps \in SeqsUpTo(WirePeriods, MaxPeriods)}

InitHours ==
    /\ op = "idle" /\ arg \in HoursInputs /\ ret = NotRun
    /\ client = None /\ calls = <<>> /\ sent = <<>>

DecodeOpeningHours ==
    /\ op = "idle"
    /\ op' = "OpeningHours.from_api_format"
    /\ ret' = OpeningHours_from_api_format(arg)
    /\ UNCHANGED <<arg, client, calls, sent>>

NextHours == DecodeOpeningHours

SpecHours == InitHours /\ [][NextHours]_vars

(***************************************************************************)
(* Properties of OpeningHours.from_api_format (checked under SpecHours)    *)
(***************************************************************************)
HoursDone == op = "OpeningHours.from_api_format"

\* output bucket (0 = Monday) of a wire day (0 = Sunday)
MondayIndex(d) == (d + 6) % 7

InBucket(bucket, pair) == \E k \in 1..Len(bucket) : bucket[k] = pair

\* the wire days strictly after o and strictly before c, going round the week
DaysBetween(o, c) == {d \in Days : ((d - o) % 7) \in 1..(((c - o) % 7) - 1)}

SpansDays(p) == (~CloseIsNone(p)) /\ p.open.day # p.close.day

SpanIsPaired(p, periods) ==
    /\ InBucket(periods[MondayIndex(p.open.day)], <<Time(p.open.hour, p.open.minute), None>>)
    /\ InBucket(periods[MondayIndex(p.close.day)], <<None, Time(p.close.hour, p.close.minute)>>)
    /\ \A d \in DaysBetween(p.open.day, p.close.day) :
          InBucket(periods[MondayIndex(d)], <<None, None>>)

\* C1: every period whose open day differs from its close day, for all open
\* and close days in 0..6 (week wrap included), leaves (open_time, None) in
\* the bucket of the open day, (None, close_time) in the bucket of the close
\* day and (None, None) in the bucket of every day strictly between them.
C1_SpanPairsEveryDay ==
    (HoursDone /\ Returned(ret)) =>
        \A k \in 1..Len(arg.periods) :
            SpansDays(arg.periods[k]) => SpanIsPaired(arg.periods[k], ret.val.periods)

AllWeekOpen(periods) == \A b \in Days : periods[b] = <<(<<None, None>>)>>

HasCloselessPeriod(data) == \E k \in 1..Len(data.periods) : CloseIsNone(data.periods[k])

\* C2 (as stated): whenever the list contains a period with no close entry,
\* the result is 7 buckets each holding exactly [(None, None)], whatever
\* other periods the list holds and wherever the close-less period stands.
C2_CloselessAlwaysAllWeek ==
    (HoursDone /\ HasCloselessPeriod(arg)) =>
        (Returned(ret) /\ DOMAIN ret.val.periods = Days /\ AllWeekOpen(ret.val.periods))

\* C2 (amended): a list that consists of one period with no close entry
\* gives 7 buckets each holding exactly [(None, None)]; a list that holds a
\* period with no close entry together with other periods gives no result,
\* the call raises RuntimeError.
C2_CloselessAloneOrError ==
    (HoursDone /\ HasCloselessPeriod(arg)) =>
        IF Len(arg.periods) = 1
        THEN Returned(ret) /\ DOMAIN ret.val.periods = Days /\ AllWeekOpen(ret.val.periods)
        ELSE Raised(ret, "RuntimeError")

C2_Witness ==
    /\ HoursDone
    /\ Len(arg.periods) = 1
    /\ CloseIsNone(arg.periods[1])
    /\ Returned(ret)
    /\ AllWeekOpen(ret.val.periods)

IsFullPair(e) == e[1] # None /\ e[2] # None

\* the (open_time, close_time) pairs of the periods of all that open and
\* close on the wire day whose output bucket is b, in list order
RECURSIVE SameDayPairs(_, _)
SameDayPairs(all, b) ==
    IF all = <<>> THEN <<>>
    ELSE LET p == Head(all) IN
         IF (~CloseIsNone(p)) /\ p.open.day = p.close.day /\ MondayIndex(p.open.day) = b
         THEN <<(<<Time(p.open.hour, p.open.minute), Time(p.close.hour, p.close.minute)>>)>>
              \o SameDayPairs(Tail(all), b)
         ELSE SameDayPairs(Tail(all), b)

\* C3: the result has exactly 7 buckets, and a period with open.day =
\* close.day = d adds (open_time, close_time) to output bucket (d + 6) mod 7
\* and to no other bucket.
C3_SameDayBucket ==
    (HoursDone /\ Returned(ret)) =>
        /\ DOMAIN ret.val.periods = Days
        /\ \A b \in Days :
              SelectSeq(ret.val.periods[b], IsFullPair) = SameDayPairs(arg.periods, b)

\* a single Sunday 09:00-17:30 period leaves only output bucket 6 non-empty
C3_Witness ==
    /\ HoursDone
    /\ arg.periods = <<[open |-> [day |-> 0, hour |-> 9, minute |-> 0],
                        close |-> [day |-> 0, hour |-> 17, minute |-> 30]]>>
    /\ Returned(ret)
    /\ ret.val.periods[6] = <<(<<Time(9, 0), Time(17, 30)>>)>>
    /\ \A b \in 0..5 : ret.val.periods[b] = <<>>

(***************************************************************************)
(* Character strings                                                       *)
(***************************************************************************)
LowerLetters == <<"a", "b", "c", "d", "e", "f", "g", "h", "i", "j", "k", "l", "m",
                  "n", "o", "p", "q", "r", "s", "t", "u", "v", "w", "x", "y", "z">>

UpperLetters == <<"A", "B", "C", "D", "E", "F", "G", "H", "I", "J", "K", "L", "M",
                  "N", "O", "P", "Q", "R", "S", "T", "U", "V", "W", "X", "Y", "Z">>

IsUpperChar(c) == \E i \in 1..26 : UpperLetters[i] = c

IsLowerChar(c) == \E i \in 1..26 : LowerLetters[i] = c

\* str.lower() of one character
LowerChar(c) ==
    IF IsUpperChar(c) THEN LowerLetters[CHOOSE i \in 1..26 : UpperLetters[i] = c] ELSE c

\* str.upper() of one character
UpperChar(c) ==
    IF IsLowerChar(c) THEN UpperLetters[CHOOSE i \in 1..26 : LowerLetters[i] = c] ELSE c

\* str.lower()
Lower(s) == [i \in 1..Len(s) |-> LowerChar(s[i])]

\* str.upper()
Upper(s) == [i \in 1..Len(s) |-> UpperChar(s[i])]

\* str.startswith
StartsWith(s, prefix) == Len(s) >= Len(prefix) /\ SubSeq(s, 1, Len(prefix)) = prefix

\* the separators casefy replaces or swallows
IsSeparator(c) == c \in {"_", "-", ".", " "}

RECURSIVE CamelTail(_)
\* re.sub(r"[\-_\.\s]([a-zA-Z0-9])", upper of group 1, s)
CamelTail(s) ==
    IF s = <<>> THEN <<>>
    ELSE IF Len(s) >= 2 /\ IsSeparator(s[1]) /\ ~IsSeparator(s[2])
         THEN <<UpperChar(s[2])>> \o CamelTail(SubSeq(s, 3, Len(s)))
         ELSE <<s[1]>> \o CamelTail(Tail(s))

\* casefy.camelcase
camelcase(s) ==
    LET t == IF s # <<>> /\ IsSeparator(s[1]) THEN Tail(s) ELSE s IN
    IF t = <<>> THEN <<>> ELSE <<LowerChar(t[1])>> \o CamelTail(Tail(t))

RECURSIVE SnakeTail(_)
\* re.sub(r"[A-Z]", "_" + lower of the match, s), separators already "_"
SnakeTail(s) ==
    IF s = <<>> THEN <<>>
    ELSE (IF IsUpperChar(s[1]) THEN <<"_", LowerChar(s[1])>>
          ELSE IF IsSeparator(s[1]) THEN <<"_">>
          ELSE <<s[1]>>) \o SnakeTail(Tail(s))

\* casefy.snakecase
snakecase(s) ==
    IF s = <<>> THEN <<>> ELSE <<LowerChar(s[1])>> \o SnakeTail(Tail(s))

RECURSIVE Join(_, _)
\* sep.join(items)
Join(items, sep) ==
    IF items = <<>> THEN <<>>
    ELSE IF Len(items) = 1 THEN items[1]
    ELSE items[1] \o sep \o Join(Tail(items), sep)

\* set(sequence)
ToSet(s) == {s[i] : i \in 1..Len(s)}

\* the orders in which iterating over the set S can yield its elements
Orderings(S) ==
    {s \in [1..Cardinality(S) -> S] : \A i, j \in 1..Cardinality(S) : i # j => s[i] # s[j]}

(***************************************************************************)
(* Place: the names of its fields                                          *)
(***************************************************************************)
\* {f.name for f in dataclasses.fields(Place)}
ValidFields == {
    <<"i", "d">>,
    <<"n", "a", "m", "e">>,
    <<"a", "c", "c", "e", "s", "s", "i", "b", "i", "l", "i", "t", "y", "_", "o", "p", "t", "i", "o", "n", "s">>,
    <<"a", "d", "d", "r", "e", "s", "s", "_", "c", "o", "m", "p", "o", "n", "e", "n", "t", "s">>,
    <<"a", "d", "r", "_", "f", "o", "r", "m", "a", "t", "_", "a", "d", "d", "r", "e", "s", "s">>,
    <<"b", "u", "s", "i", "n", "e", "s", "s", "_", "s", "t", "a", "t", "u", "s">>,
    <<"d", "i", "s", "p", "l", "a", "y", "_", "n", "a", "m", "e">>,
    <<"f", "o", "r", "m", "a", "t", "t", "e", "d", "_", "a", "d", "d", "r", "e", "s", "s">>,
    <<"g", "o", "o", "g", "l", "e", "_", "m", "a", "p", "s", "_", "u", "r", "i">>,
    <<"i", "c", "o", "n", "_", "b", "a", "c", "k", "g", "r", "o", "u", "n", "d", "_", "c", "o", "l", "o", "r">>,
    <<"i", "c", "o", "n", "_", "m", "a", "s", "k", "_", "b", "a", "s", "e", "_", "u", "r", "i">>,
    <<"l", "o", "c", "a", "t", "i", "o", "n">>,
    <<"p", "h", "o", "t", "o", "s">>,
    <<"p", "l", "u", "s", "_", "c", "o", "d", "e">>,
    <<"p", "r", "i", "m", "a", "r", "y", "_", "t", "y", "p", "e">>,
    <<"p", "r", "i", "m", "a", "r", "y", "_", "t", "y", "p", "e", "_", "d", "i", "s", "p", "l", "a", "y", "_", "n", "a", "m", "e">>,
    <<"s", "h", "o", "r", "t", "_", "f", "o", "r", "m", "a", "t", "t", "e", "d", "_", "a", "d", "d", "r", "e", "s", "s">>,
    <<"t", "y", "p", "e", "s">>,
    <<"u", "t", "c", "_", "o", "f", "f", "s", "e", "t", "_", "m", "i", "n", "u", "t", "e", "s">>,
    <<"v", "i", "e", "w", "p", "o", "r", "t">>,
    <<"c", "u", "r", "r", "e", "n", "t", "_", "o", "p", "e", "n", "i", "n", "g", "_", "h", "o", "u", "r", "s">>,
    <<"c", "u", "r", "r", "e", "n", "t", "_", "s", "e", "c", "o", "n", "d", "a", "r", "y", "_", "o", "p", "e", "n", "i", "n", "g", "_", "h", "o", "u", "r", "s">>,
    <<"i", "n", "t", "e", "r", "n", "a", "t", "i", "o", "n", "a", "l", "_", "p", "h", "o", "n", "e", "_", "n", "u", "m", "b", "e", "r">>,
    <<"n", "a", "t", "i", "o", "n", "a", "l", "_", "p", "h", "o", "n", "e", "_", "n", "u", "m", "b", "e", "r">>,
    <<"p", "r", "i", "c", "e", "_", "l", "e", "v", "e", "l">>,
    <<"r", "a", "t", "i", "n", "g">>,
    <<"r", "e", "g", "u", "l", "a", "r", "_", "o", "p", "e", "n", "i", "n", "g", "_", "h", "o", "u", "r", "s">>,
    <<"r", "e", "g", "u", "l", "a", "r", "_", "s", "e", "c", "o", "n", "d", "a", "r", "y", "_", "o", "p", "e", "n", "i", "n", "g", "_", "h", "o", "u", "r", "s">>,
    <<"u", "s", "e", "r", "_", "r", "a", "t", "i", "n", "g", "_", "c", "o", "u", "n", "t">>,
    <<"w", "e", "b", "s", "i", "t", "e", "_", "u", "r", "i">>,
    <<"a", "l", "l", "o", "w", "s", "_", "d", "o", "g", "s">>,
    <<"c", "u", "r", "b", "s", "i", "d", "e", "_", "p", "i", "c", "k", "u", "p">>,
    <<"d", "e", "l", "i", "v", "e", "r", "y">>,
    <<"d", "i", "n", "e", "_", "i", "n">>,
    <<"g", "o", "o", "d", "_", "f", "o", "r", "_", "c", "h", "i", "l", "d", "r", "e", "n">>,
    <<"g", "o", "o", "d", "_", "f", "o", "r", "_", "g", "r", "o", "u", "p", "s">>,
    <<"g", "o", "o", "d", "_", "f", "o", "r", "_", "w", "a", "t", "c", "h", "i", "n", "g", "_", "s", "p", "o", "r", "t", "s">>,
    <<"l", "i", "v", "e", "_", "m", "u", "s", "i", "c">>,
    <<"m", "e", "n", "u", "_", "f", "o", "r", "_", "c", "h", "i", "l", "d", "r", "e", "n">>,
    <<"p", "a", "r", "k", "i", "n", "g", "_", "o", "p", "t", "i", "o", "n", "s">>,
    <<"p", "a", "y", "m", "e", "n", "t", "_", "o", "p", "t", "i", "o", "n", "s">>,
    <<"o", "u", "t", "d", "o", "o", "r", "_", "s", "e", "a", "t", "i", "n", "g">>,
    <<"r", "e", "s", "e", "r", "v", "a", "b", "l", "e">>,
    <<"r", "e", "s", "t", "r", "o", "o", "m">>,
    <<"r", "e", "v", "i", "e", "w", "s">>,
    <<"s", "e", "r", "v", "e", "s", "_", "b", "e", "e", "r">>,
    <<"s", "e", "r", "v", "e", "s", "_", "b", "r", "e", "a", "k", "f", "a", "s", "t">>,
    <<"s", "e", "r", "v", "e", "s", "_", "b", "r", "u", "n", "c", "h">>,
    <<"s", "e", "r", "v", "e", "s", "_", "c", "o", "c", "k", "t", "a", "i", "l", "s">>,
    <<"s", "e", "r", "v", "e", "s", "_", "c", "o", "f", "f", "e", "e">>,
    <<"s", "e", "r", "v", "e", "s", "_", "d", "e", "s", "s", "e", "r", "t", "s">>,
    <<"s", "e", "r", "v", "e", "s", "_", "d", "i", "n", "n", "e", "r">>,
    <<"s", "e", "r", "v", "e", "s", "_", "l", "u", "n", "c", "h">>,
    <<"s", "e", "r", "v", "e", "s", "_", "v", "e", "g", "e", "t", "a", "r", "i", "a", "n", "_", "f", "o", "o", "d">>,
    <<"s", "e", "r", "v", "e", "s", "_", "w", "i", "n", "e">>,
    <<"t", "a", "k", "e", "o", "u", "t">>
}

(***************************************************************************)
(* create_field_mask                                                       *)
(***************************************************************************)
Star == <<"*">>

PlacesPrefix == <<"p", "l", "a", "c", "e", "s", ".">>

NoFieldsMessage == <<"A", "t", " ", "l", "e", "a", "s", "t", " ", "o", "n", "e", " ", "f", "i", "e", "l", "d", " ", "m", "u", "s", "t", " ", "b", "e", " ", "p", "r", "o", "v", "i", "d", "e", "d", ".">>

InvalidFieldsPrefix == <<"I", "n", "v", "a", "l", "i", "d", " ", "f", "i", "e", "l", "d", "(", "s", ")", ":", " ">>

\* (variant: the prefix is added whatever add_prefix says)
to_api_name_always(field, add_prefix) == PlacesPrefix \o camelcase(field)

\* _to_api_name
to_api_name(field, add_prefix) ==
    IF add_prefix THEN PlacesPrefix \o camelcase(field) ELSE camelcase(field)

\* (variant: only one of the offending names is reported)
InvalidFields_one(fields) ==
    IF fields \ ValidFields = {} THEN {}
    ELSE {CHOOSE f \in fields \ ValidFields : TRUE}

\* invalid_fields = fields - valid_fields
InvalidFields(fields) == fields \ ValidFields

\* (variant: the wildcard goes through the naming of ordinary fields)
WildcardMask_named(add_prefix) == IF add_prefix THEN PlacesPrefix \o Star ELSE Star

\* return "*"
WildcardMask(add_prefix) == Star

\* (variant: the names beside the wildcard are validated before it is looked for)
create_field_mask_validating(fields_in, add_prefix, order, invalid_order) ==
    LET fields == ToSet(fields_in) IN
    IF Cardinality(fields) = 0
    THEN [ok |-> FALSE, err |-> "ValueError", msg |-> NoFieldsMessage]
    ELSE IF Cardinality(InvalidFields(fields \ {Star})) > 0
    THEN [ok |-> FALSE, err |-> "ValueError",
          msg |-> InvalidFieldsPrefix \o Join(invalid_order, <<",", " ">>)]
    ELSE IF Star \in fields
    THEN [ok |-> TRUE, val |-> WildcardMask(add_prefix)]
    ELSE [ok |-> TRUE,
          val |-> Join([i \in 1..Len(order) |-> to_api_name(order[i], add_prefix)], <<",">>)]

\* create_field_mask(fields_in, add_prefix=add_prefix); order and
\* invalid_order are the orders in which the two sets are iterated
create_field_mask(fields_in, add_prefix, order, invalid_order) ==
    LET fields == ToSet(fields_in) IN
    IF Cardinality(fields) = 0
    THEN [ok |-> FALSE, err |-> "ValueError", msg |-> NoFieldsMessage]
    ELSE IF Star \in fields
    THEN [ok |-> TRUE, val |-> WildcardMask(add_prefix)]
    ELSE IF Cardinality(InvalidFields(fields)) > 0
    THEN [ok |-> FALSE, err |-> "ValueError",
          msg |-> InvalidFieldsPrefix \o Join(invalid_order, <<",", " ">>)]
    ELSE [ok |-> TRUE,
          val |-> Join([i \in 1..Len(order) |-> to_api_name(order[i], add_prefix)], <<",">>)]

\* ---- inputs ----
f_rating == <<"r", "a", "t", "i", "n", "g">>

f_display_name == <<"d", "i", "s", "p", "l", "a", "y", "_", "n", "a", "m", "e">>

f_google_maps_uri == <<"g", "o", "o", "g", "l", "e", "_", "m", "a", "p", "s", "_", "u", "r", "i">>

f_unknown_field == <<"u", "n", "k", "n", "o", "w", "n", "_", "f", "i", "e", "l", "d">>

f_ratings == <<"r", "a", "t", "i", "n", "g", "s">>

MaskNames == {f_rating, f_display_name, f_google_maps_uri, f_unknown_field, f_ratings, Star}

MaskInputs ==
    {[fields |-> fs, add_prefix |-> p] : fs \in SeqsUpTo(MaskNames, MaxFields), p \in BOOLEAN}

InitMask ==
    /\ op = "idle" /\ arg \in MaskInputs /\ ret = NotRun
    /\ client = None /\ calls = <<>> /\ sent = <<>>

CreateFieldMask ==
    /\ op = "idle"
    /\ op' = "create_field_mask"
    /\ \E order \in Orderings(ToSet(arg.fields)),
          invalid_order \in Orderings(InvalidFields(ToSet(arg.fields))) :
          ret' = create_field_mask(arg.fields, arg.add_prefix, order, invalid_order)
    /\ UNCHANGED <<arg, client, calls, sent>>

NextMask == CreateFieldMask

SpecMask == InitMask /\ [][NextMask]_vars

(***************************************************************************)
(* Properties of create_field_mask (checked under SpecMask)                *)
(***************************************************************************)
MaskDone == op = "create_field_mask"

\* the positions of s at which sep starts
Occurrences(s, sep) ==
    {i \in 1..(Len(s) - Len(sep) + 1) : SubSeq(s, i, i + Len(sep) - 1) = sep}

RECURSIVE SplitOn(_, _)
\* the items of s between the occurrences of sep
SplitOn(s, sep) ==
    IF Occurrences(s, sep) = {} THEN <<s>>
    ELSE LET i == CHOOSE k \in Occurrences(s, sep) : \A m \in Occurrences(s, sep) : k <= m IN
         <<SubSeq(s, 1, i - 1)>> \o SplitOn(SubSeq(s, i + Len(sep), Len(s)), sep)

NoDuplicates(items) == \A i, j \in 1..Len(items) : i # j => items[i] # items[j]

Requested == ToSet(arg.fields)

Offending == {f \in Requested : f \notin ValidFields}

\* C4: create_field_mask fails with a validation error on the empty field
\* set, and on a non-empty set without the wildcard it fails whenever a
\* requested name is not a field of Place, the message listing every
\* offending name and only those.
C4_MaskRejects ==
    MaskDone =>
        /\ (Requested = {}) => Raised(ret, "ValueError")
        /\ (Requested # {} /\ Star \notin Requested /\ Offending # {}) =>
              /\ Raised(ret, "ValueError")
              /\ StartsWith(ret.msg, InvalidFieldsPrefix)
              /\ LET listed == SplitOn(SubSeq(ret.msg, Len(InvalidFieldsPrefix) + 1, Len(ret.msg)),
                                       <<",", " ">>) IN
                 /\ ToSet(listed) = Offending
                 /\ NoDuplicates(listed)

C4_Witness ==
    /\ MaskDone
    /\ Requested = {f_rating, f_unknown_field, f_ratings}
    /\ Raised(ret, "ValueError")
    /\ StartsWith(ret.msg, InvalidFieldsPrefix \o f_ratings)

\* C5: create_field_mask on the field set {"*"} returns exactly "*" for
\* add_prefix true and false alike.
C5_WildcardVerbatim ==
    (MaskDone /\ Requested = {Star}) => (Returned(ret) /\ ret.val = <<"*">>)

C5_Witness ==
    /\ MaskDone
    /\ arg.fields = <<Star>>
    /\ arg.add_prefix
    /\ Returned(ret)
    /\ ret.val = <<"*">>

\* the lower-camel-case name the Places API gives a field
ApiName(f) ==
    CASE f = f_rating -> <<"r", "a", "t", "i", "n", "g">>
      [] f = f_display_name -> <<"d", "i", "s", "p", "l", "a", "y", "N", "a", "m", "e">>
      [] f = f_google_maps_uri -> <<"g", "o", "o", "g", "l", "e", "M", "a", "p", "s", "U", "r", "i">>

\* C6: on a non-empty set of valid Place field names without the wildcard,
\* create_field_mask returns a comma-separated string whose items are
\* exactly the camel-cased forms of the requested names, each once, each
\* prefixed with "places." if and only if add_prefix is true.
C6_MaskItems ==
    (MaskDone /\ Requested # {} /\ Star \notin Requested /\ Offending = {}) =>
        /\ Returned(ret)
        /\ LET items == SplitOn(ret.val, <<",">>) IN
           /\ NoDuplicates(items)
           /\ ToSet(items) =
                {(IF arg.add_prefix THEN <<"p", "l", "a", "c", "e", "s", ".">> ELSE <<>>) \o ApiName(f) : f \in Requested}

\* {"rating"} with add_prefix=True gives "places.rating"
C6_Witness ==
    /\ MaskDone
    /\ arg.fields = <<f_rating>>
    /\ arg.add_prefix
    /\ Returned(ret)
    /\ ret.val = <<"p", "l", "a", "c", "e", "s", ".", "r", "a", "t", "i", "n", "g">>

(***************************************************************************)
(* Value objects: enumerations                                             *)
(***************************************************************************)
\* class PriceLevel(enum.Enum): the members, NAME = "value"
PriceLevelMembers == {
    [name |-> <<"U", "N", "S", "P", "E", "C", "I", "F", "I", "E", "D">>,
     value |-> <<"u", "n", "s", "p", "e", "c", "i", "f", "i", "e", "d">>],
    [name |-> <<"F", "R", "E", "E">>,
     value |-> <<"f", "r", "e", "e">>],
    [name |-> <<"I", "N", "E", "X", "P", "E", "N", "S", "I", "V", "E">>,
     value |-> <<"i", "n", "e", "x", "p", "e", "n", "s", "i", "v", "e">>],
    [name |-> <<"M", "O", "D", "E", "R", "A", "T", "E">>,
     value |-> <<"m", "o", "d", "e", "r", "a", "t", "e">>],
    [name |-> <<"E", "X", "P", "E", "N", "S", "I", "V", "E">>,
     value |-> <<"e", "x", "p", "e", "n", "s", "i", "v", "e">>],
    [name |-> <<"V", "E", "R", "Y", "_", "E", "X", "P", "E", "N", "S", "I", "V", "E">>,
     value |-> <<"v", "e", "r", "y", "_", "e", "x", "p", "e", "n", "s", "i", "v", "e">>]
}

\* class BusinessStatus(enum.Enum)
BusinessStatusMembers == {
    [name |-> <<"O", "P", "E", "R", "A", "T", "I", "O", "N", "A", "L">>,
     value |-> <<"o", "p", "e", "r", "a", "t", "i", "o", "n", "a", "l">>],
    [name |-> <<"C", "L", "O", "S", "E", "D", "_", "T", "E", "M", "P", "O", "R", "A", "R", "I", "L", "Y">>,
     value |-> <<"c", "l", "o", "s", "e", "d", "_", "t", "e", "m", "p", "o", "r", "a", "r", "i", "l", "y">>],
    [name |-> <<"C", "L", "O", "S", "E", "D", "_", "P", "E", "R", "M", "A", "N", "E", "N", "T", "L", "Y">>,
     value |-> <<"c", "l", "o", "s", "e", "d", "_", "p", "e", "r", "m", "a", "n", "e", "n", "t", "l", "y">>]
}

PriceLevelPrefix == <<"P", "R", "I", "C", "E", "_", "L", "E", "V", "E", "L", "_">>

\* the members of an enumeration as values of the class cls
EnumValues(cls, members) == {[cls |-> cls, name |-> m.name, value |-> m.value] : m \in members}

\* cls(value): the member with that value, ValueError when there is none
EnumLookup(cls, members, value) ==
    IF \E m \in members : m.value = value
    THEN [ok |-> TRUE,
          val |-> CHOOSE x \in EnumValues(cls, members) : x.value = value]
    ELSE [ok |-> FALSE, err |-> "ValueError"]

\* str.removeprefix
RemovePrefix(s, prefix) ==
    IF StartsWith(s, prefix) THEN SubSeq(s, Len(prefix) + 1, Len(s)) ELSE s

\* (variant: the prefix is left on the wire string)
PriceLevel_from_api_format_raw(value) ==
    EnumLookup("PriceLevel", PriceLevelMembers, Lower(value))

\* PriceLevel.from_api_format
PriceLevel_from_api_format(value) ==
    EnumLookup("PriceLevel", PriceLevelMembers, Lower(RemovePrefix(value, PriceLevelPrefix)))

\* PriceLevel.to_api_format
PriceLevel_to_api_format(x) == PriceLevelPrefix \o x.name

\* BusinessStatus.from_api_format
BusinessStatus_from_api_format(value) ==
    EnumLookup("BusinessStatus", BusinessStatusMembers, Lower(value))

\* BusinessStatus.to_api_format
BusinessStatus_to_api_format(x) == x.name

(***************************************************************************)
(* Value objects: areas and plus code (keys read and written by name)      *)
(***************************************************************************)
HasKeys(data, keys) == keys \subseteq DOMAIN data

KeyError == [ok |-> FALSE, err |-> "KeyError"]

\* CircularArea(center, radius), __post_init__ included
CircularArea(center, radius) ==
    IF ~(0 < radius /\ radius <= 50000)
    THEN [ok |-> FALSE, err |-> "ValueError"]
    ELSE [ok |-> TRUE, val |-> [cls |-> "CircularArea", center |-> center, radius |-> radius]]

\* CircularArea.from_api_format
CircularArea_from_api_format(data) ==
    IF ~(HasKeys(data, {"center", "radius"}) /\ HasKeys(data.center, {"latitude", "longitude"}))
    THEN KeyError
    ELSE CircularArea(<<data.center.latitude, data.center.longitude>>, data.radius)

\* CircularArea.to_api_format
CircularArea_to_api_format(x) ==
    [center |-> [latitude |-> x.center[1], longitude |-> x.center[2]],
     radius |-> x.radius]

\* RectangularArea(south_west, north_east)
RectangularArea(south_west, north_east) ==
    [ok |-> TRUE,
     val |-> [cls |-> "RectangularArea", south_west |-> south_west, north_east |-> north_east]]

\* (variant: the two corners are read from each other's key)
RectangularArea_from_api_format_swapped(data) ==
    IF ~(HasKeys(data, {"low", "high"})
         /\ HasKeys(data.low, {"latitude", "longitude"})
         /\ HasKeys(data.high, {"latitude", "longitude"}))
    THEN KeyError
    ELSE RectangularArea(<<data.high.latitude, data.high.longitude>>,
                         <<data.low.latitude, data.low.longitude>>)

\* RectangularArea.from_api_format
RectangularArea_from_api_format(data) ==
    IF ~(HasKeys(data, {"low", "high"})
         /\ HasKeys(data.low, {"latitude", "longitude"})
         /\ HasKeys(data.high, {"latitude", "longitude"}))
    THEN KeyError
    ELSE RectangularArea(<<data.low.latitude, data.low.longitude>>,
                         <<data.high.latitude, data.high.longitude>>)

\* RectangularArea.to_api_format
RectangularArea_to_api_format(x) ==
    [low |-> [latitude |-> x.south_west[1], longitude |-> x.south_west[2]],
     high |-> [latitude |-> x.north_east[1], longitude |-> x.north_east[2]]]

\* PlusCode.from_api_format
PlusCode_from_api_format(data) ==
    IF ~HasKeys(data, {"globalCode", "compoundCode"})
    THEN KeyError
    ELSE [ok |-> TRUE,
          val |-> [cls |-> "PlusCode",
                   global_code |-> data.globalCode,
                   compound_code |-> data.compoundCode]]

\* PlusCode.to_api_format
PlusCode_to_api_format(x) ==
    [globalCode |-> x.global_code, compoundCode |-> x.compound_code]

(***************************************************************************)
(* Value objects: dataclasses converted key by key                         *)
(* An instance is [cls, fields], fields mapping every field name of the   *)
(* class to its value; a dict is a function from its keys to its values.  *)
(***************************************************************************)
n_text == <<"t", "e", "x", "t">>

n_language_code == <<"l", "a", "n", "g", "u", "a", "g", "e", "_", "c", "o", "d", "e">>

n_long_text == <<"l", "o", "n", "g", "_", "t", "e", "x", "t">>

n_short_text == <<"s", "h", "o", "r", "t", "_", "t", "e", "x", "t">>

n_types == <<"t", "y", "p", "e", "s">>

n_display_name == <<"d", "i", "s", "p", "l", "a", "y", "_", "n", "a", "m", "e">>

n_uri == <<"u", "r", "i">>

n_photo_uri == <<"p", "h", "o", "t", "o", "_", "u", "r", "i">>

n_free_garage_parking == <<"f", "r", "e", "e", "_", "g", "a", "r", "a", "g", "e", "_", "p", "a", "r", "k", "i", "n", "g">>

n_free_parking_lot == <<"f", "r", "e", "e", "_", "p", "a", "r", "k", "i", "n", "g", "_", "l", "o", "t">>

n_free_street_parking == <<"f", "r", "e", "e", "_", "s", "t", "r", "e", "e", "t", "_", "p", "a", "r", "k", "i", "n", "g">>

n_paid_garage_parking == <<"p", "a", "i", "d", "_", "g", "a", "r", "a", "g", "e", "_", "p", "a", "r", "k", "i", "n", "g">>

n_paid_parking_lot == <<"p", "a", "i", "d", "_", "p", "a", "r", "k", "i", "n", "g", "_", "l", "o", "t">>

n_paid_street_parking == <<"p", "a", "i", "d", "_", "s", "t", "r", "e", "e", "t", "_", "p", "a", "r", "k", "i", "n", "g">>

n_valet_parking == <<"v", "a", "l", "e", "t", "_", "p", "a", "r", "k", "i", "n", "g">>

n_accepts_cash_only == <<"a", "c", "c", "e", "p", "t", "s", "_", "c", "a", "s", "h", "_", "o", "n", "l", "y">>

n_accepts_credit_cards == <<"a", "c", "c", "e", "p", "t", "s", "_", "c", "r", "e", "d", "i", "t", "_", "c", "a", "r", "d", "s">>

n_accepts_debit_cards == <<"a", "c", "c", "e", "p", "t", "s", "_", "d", "e", "b", "i", "t", "_", "c", "a", "r", "d", "s">>

n_accepts_nfc == <<"a", "c", "c", "e", "p", "t", "s", "_", "n", "f", "c">>

k_text == <<"t", "e", "x", "t">>

k_languageCode == <<"l", "a", "n", "g", "u", "a", "g", "e", "C", "o", "d", "e">>

k_longText == <<"l", "o", "n", "g", "T", "e", "x", "t">>

k_shortText == <<"s", "h", "o", "r", "t", "T", "e", "x", "t">>

k_types == <<"t", "y", "p", "e", "s">>

k_displayName == <<"d", "i", "s", "p", "l", "a", "y", "N", "a", "m", "e">>

k_uri == <<"u", "r", "i">>

k_photoUri == <<"p", "h", "o", "t", "o", "U", "r", "i">>

k_freeGarageParking == <<"f", "r", "e", "e", "G", "a", "r", "a", "g", "e", "P", "a", "r", "k", "i", "n", "g">>

k_freeParkingLot == <<"f", "r", "e", "e", "P", "a", "r", "k", "i", "n", "g", "L", "o", "t">>

k_freeStreetParking == <<"f", "r", "e", "e", "S", "t", "r", "e", "e", "t", "P", "a", "r", "k", "i", "n", "g">>

k_paidGarageParking == <<"p", "a", "i", "d", "G", "a", "r", "a", "g", "e", "P", "a", "r", "k", "i", "n", "g">>

k_paidParkingLot == <<"p", "a", "i", "d", "P", "a", "r", "k", "i", "n", "g", "L", "o", "t">>

k_paidStreetParking == <<"p", "a", "i", "d", "S", "t", "r", "e", "e", "t", "P", "a", "r", "k", "i", "n", "g">>

k_valetParking == <<"v", "a", "l", "e", "t", "P", "a", "r", "k", "i", "n", "g">>

k_acceptsCashOnly == <<"a", "c", "c", "e", "p", "t", "s", "C", "a", "s", "h", "O", "n", "l", "y">>

k_acceptsCreditCards == <<"a", "c", "c", "e", "p", "t", "s", "C", "r", "e", "d", "i", "t", "C", "a", "r", "d", "s">>

k_acceptsDebitCards == <<"a", "c", "c", "e", "p", "t", "s", "D", "e", "b", "i", "t", "C", "a", "r", "d", "s">>

k_acceptsNfc == <<"a", "c", "c", "e", "p", "t", "s", "N", "f", "c">>

n_name == <<"n", "a", "m", "e">>

n_relative_publish_time_description == <<"r", "e", "l", "a", "t", "i", "v", "e", "_", "p", "u", "b", "l", "i", "s", "h", "_", "t", "i", "m", "e", "_", "d", "e", "s", "c", "r", "i", "p", "t", "i", "o", "n">>

n_rating == <<"r", "a", "t", "i", "n", "g">>

n_original_text == <<"o", "r", "i", "g", "i", "n", "a", "l", "_", "t", "e", "x", "t">>

n_author_attribution == <<"a", "u", "t", "h", "o", "r", "_", "a", "t", "t", "r", "i", "b", "u", "t", "i", "o", "n">>

n_publish_time == <<"p", "u", "b", "l", "i", "s", "h", "_", "t", "i", "m", "e">>

\* dataclasses.fields(cls), by name
ClassFields(cls) ==
    CASE cls = "LocalizedString" ->
        {n_text, n_language_code}
      [] cls = "AddressComponent" ->
        {n_long_text, n_short_text, n_types, n_language_code}
      [] cls = "AuthorAttribution" ->
        {n_display_name, n_uri, n_photo_uri}
      [] cls = "ParkingOptions" ->
        {n_free_garage_parking, n_free_parking_lot, n_free_street_parking, n_paid_garage_parking, n_paid_parking_lot, n_paid_street_parking, n_valet_parking}
      [] cls = "PaymentOptions" ->
        {n_accepts_cash_only, n_accepts_credit_cards, n_accepts_debit_cards, n_accepts_nfc}
      [] cls = "Review" ->
        {n_name, n_relative_publish_time_description, n_rating, n_text, n_original_text,
         n_author_attribution, n_publish_time}
      [] cls = "Place" -> ValidFields

\* the fields of cls that have no default value
RequiredFields(cls) ==
    CASE cls = "LocalizedString" -> {n_text, n_language_code}
      [] cls = "AddressComponent" -> {n_long_text, n_short_text, n_types, n_language_code}
      [] cls = "AuthorAttribution" -> {n_display_name}
      [] cls = "ParkingOptions" -> {}
      [] cls = "PaymentOptions" -> {}
      [] cls = "Review" ->
        {n_name, n_relative_publish_time_description, n_rating, n_text, n_original_text,
         n_author_attribution, n_publish_time}
      [] cls = "Place" -> {}

\* cls(**kwargs): TypeError on an unexpected or a missing argument, the
\* default None for every optional field that is not given
Construct(cls, kwargs) ==
    IF ~(DOMAIN kwargs \subseteq ClassFields(cls) /\ RequiredFields(cls) \subseteq DOMAIN kwargs)
    THEN [ok |-> FALSE, err |-> "TypeError"]
    ELSE [ok |-> TRUE,
          val |-> [cls |-> cls,
                   fields |-> [f \in ClassFields(cls) |->
                                  IF f \in DOMAIN kwargs THEN kwargs[f] ELSE None]]]

\* {casefy.snakecase(key): value for key, value in data.items()}
SnakeKeys(data) ==
    [s \in {snakecase(k) : k \in DOMAIN data} |->
        data[CHOOSE k \in DOMAIN data : snakecase(k) = s]]

\* {casefy.camelcase(key): value for key, value in data.items()}
CamelKeys(data) ==
    [c \in {camelcase(k) : k \in DOMAIN data} |->
        data[CHOOSE k \in DOMAIN data : camelcase(k) = c]]

\* dataclasses.asdict(self)
asdict(x) == x.fields

\* from_api_format of LocalizedString, AddressComponent, AuthorAttribution,
\* ParkingOptions and PaymentOptions
Dataclass_from_api_format(cls, data) == Construct(cls, SnakeKeys(data))

\* to_api_format of the same classes
Dataclass_to_api_format(x) == CamelKeys(asdict(x))

KeyConverted == {"LocalizedString", "AddressComponent", "AuthorAttribution",
                 "ParkingOptions", "PaymentOptions"}

\* cls.from_api_format(data)
from_api_format(cls, data) ==
    CASE cls = "PriceLevel" -> PriceLevel_from_api_format(data)
      [] cls = "BusinessStatus" -> BusinessStatus_from_api_format(data)
      [] cls = "CircularArea" -> CircularArea_from_api_format(data)
      [] cls = "RectangularArea" -> RectangularArea_from_api_format(data)
      [] cls = "PlusCode" -> PlusCode_from_api_format(data)
      [] cls \in KeyConverted -> Dataclass_from_api_format(cls, data)

\* x.to_api_format()
to_api_format(x) ==
    CASE x.cls = "PriceLevel" -> PriceLevel_to_api_format(x)
      [] x.cls = "BusinessStatus" -> BusinessStatus_to_api_format(x)
      [] x.cls = "CircularArea" -> CircularArea_to_api_format(x)
      [] x.cls = "RectangularArea" -> RectangularArea_to_api_format(x)
      [] x.cls = "PlusCode" -> PlusCode_to_api_format(x)
      [] x.cls \in KeyConverted -> Dataclass_to_api_format(x)

\* ---- inputs ----
\* latitude and longitude in whole degrees
LatLngs == {<<45, 9>>, <<-33, 151>>}

Radii == {1, 50000}

Texts == {"Roma", "Rome"}

Languages == {"it", "en"}

TypeLists == {<<>>, <<"route">>, <<"locality", "political">>}

\* str | None
OptionalTexts == {None, <<"https://example.org/a">>}

\* bool | None
OptionalBools == {None, <<TRUE>>, <<FALSE>>}

\* the functions from exactly the keys of keys to values
Dicts(keys, values) == [keys -> values]

\* the functions from some of the keys of keys to values
PartialDicts(keys, values) == UNION {[ks -> values] : ks \in SUBSET keys}

\* the dicts that are a on the keys of a and b on the keys of b
Merge(a, b) == [k \in DOMAIN a \cup DOMAIN b |-> IF k \in DOMAIN a THEN a[k] ELSE b[k]]

Instances(cls, fieldDicts) == {[cls |-> cls, fields |-> d] : d \in fieldDicts}

LocalizedStrings ==
    Instances("LocalizedString",
        {Merge([k \in {n_text} |-> t], [k \in {n_language_code} |-> l]) :
            t \in Texts, l \in Languages})

AddressComponents ==
    Instances("AddressComponent",
        {Merge(Merge([k \in {n_long_text, n_short_text} |-> t], [k \in {n_types} |-> ts]),
               [k \in {n_language_code} |-> l]) :
            t \in Texts, ts \in TypeLists, l \in Languages})

AuthorAttributions ==
    Instances("AuthorAttribution",
        {Merge([k \in {n_display_name} |-> t], o) :
            t \in Texts, o \in Dicts({n_uri, n_photo_uri}, OptionalTexts)})

ParkingOptionsValues ==
    Instances("ParkingOptions", Dicts(ClassFields("ParkingOptions"), {None, <<TRUE>>}))

PaymentOptionsValues ==
    Instances("PaymentOptions", Dicts(ClassFields("PaymentOptions"), OptionalBools))

CircularAreas ==
    {[cls |-> "CircularArea", center |-> c, radius |-> r] : c \in LatLngs, r \in Radii}

RectangularAreas ==
    {[cls |-> "RectangularArea", south_west |-> a, north_east |-> b] : a \in LatLngs, b \in LatLngs}

PlusCodes ==
    {[cls |-> "PlusCode", global_code |-> g, compound_code |-> c] :
        g \in {"8FHJ"}, c \in {"VFQ2+XX Roma", "VFQ2+XX Rome"}}

DomainValues ==
    CircularAreas \cup RectangularAreas \cup LocalizedStrings \cup AddressComponents
    \cup PlusCodes \cup AuthorAttributions \cup ParkingOptionsValues \cup PaymentOptionsValues
    \cup EnumValues("PriceLevel", PriceLevelMembers)
    \cup EnumValues("BusinessStatus", BusinessStatusMembers)

\* wire objects as the API sends them: an optional key is either absent or
\* carries a value
WireLatLngs == {[latitude |-> p[1], longitude |-> p[2]] : p \in LatLngs}

ParkingKeys == {k_freeGarageParking, k_freeParkingLot, k_freeStreetParking,
                k_paidGarageParking, k_paidParkingLot, k_paidStreetParking, k_valetParking}

PaymentKeys == {k_acceptsCashOnly, k_acceptsCreditCards, k_acceptsDebitCards, k_acceptsNfc}

WireValues(cls) ==
    CASE cls = "CircularArea" ->
            {[center |-> c, radius |-> r] : c \in WireLatLngs, r \in Radii}
      [] cls = "RectangularArea" ->
            {[low |-> a, high |-> b] : a \in WireLatLngs, b \in WireLatLngs}
      [] cls = "LocalizedString" ->
            {Merge([k \in {k_text} |-> t], [k \in {k_languageCode} |-> l]) :
                t \in Texts, l \in Languages}
      [] cls = "AddressComponent" ->
            {Merge(Merge([k \in {k_longText, k_shortText} |-> t], [k \in {k_types} |-> ts]),
                   [k \in {k_languageCode} |-> l]) :
                t \in Texts, ts \in TypeLists, l \in Languages}
      [] cls = "PlusCode" ->
            {[globalCode |-> "8FHJ", compoundCode |-> c] : c \in {"VFQ2+XX Roma", "VFQ2+XX Rome"}}
            \cup {[globalCode |-> "8FHJ"]}
      [] cls = "AuthorAttribution" ->
            {Merge([k \in {k_displayName} |-> t], o) :
                t \in Texts, o \in PartialDicts({k_uri, k_photoUri}, {<<"https://example.org/a">>})}
      [] cls = "ParkingOptions" -> PartialDicts(ParkingKeys, {<<TRUE>>})
      [] cls = "PaymentOptions" -> PartialDicts(PaymentKeys, {<<TRUE>>, <<FALSE>>})
      [] cls = "PriceLevel" -> {PriceLevelPrefix \o m.name : m \in PriceLevelMembers}
      [] cls = "BusinessStatus" -> {m.name : m \in BusinessStatusMembers}

CodecClasses == {"CircularArea", "RectangularArea", "LocalizedString", "AddressComponent",
                 "PlusCode", "AuthorAttribution", "ParkingOptions", "PaymentOptions",
                 "PriceLevel", "BusinessStatus"}

DomainInputs == {[side |-> "domain", cls |-> x.cls, val |-> x] : x \in DomainValues}

WireInputs(cls) == {[side |-> "wire", cls |-> cls, val |-> v] : v \in WireValues(cls)}

InitCodec ==
    /\ op = "idle"
    /\ ret = NotRun
    /\ client = None /\ calls = <<>> /\ sent = <<>>
    /\ \/ arg \in DomainInputs
       \/ \E cls \in CodecClasses : arg \in WireInputs(cls)

\* the two results of a round trip, and whether both calls returned
ThereAndBack(pair) == [ok |-> pair[2].ok, there |-> pair[1], back |-> pair[2]]

\* the wire value w and what from_api_format makes of it
EncodedThenDecoded(cls, w) == <<[ok |-> TRUE, val |-> w], from_api_format(cls, w)>>

\* the decoding there and, when it returned, the encoding of its object
DecodedThenEncoded(there) ==
    <<there, IF there.ok THEN [ok |-> TRUE, val |-> to_api_format(there.val)] ELSE NotRun>>

\* x.to_api_format() and then from_api_format of what it returned
EncodeThenDecode ==
    /\ op = "idle"
    /\ arg.side = "domain"
    /\ op' = "to_api_format, from_api_format"
    /\ ret' = ThereAndBack(EncodedThenDecoded(arg.cls, to_api_format(arg.val)))
    /\ UNCHANGED <<arg, client, calls, sent>>

\* from_api_format(w) and then to_api_format of the object it returned
DecodeThenEncode ==
    /\ op = "idle"
    /\ arg.side = "wire"
    /\ op' = "from_api_format, to_api_format"
    /\ ret' = ThereAndBack(DecodedThenEncoded(from_api_format(arg.cls, arg.val)))
    /\ UNCHANGED <<arg, client, calls, sent>>

NextCodec == EncodeThenDecode \/ DecodeThenEncode

SpecCodec == InitCodec /\ [][NextCodec]_vars

(***************************************************************************)
(* Properties of the value-object codecs (checked under SpecCodec)         *)
(***************************************************************************)
\* C7: for every domain value x of the ten value types,
\* from_api_format(to_api_format(x)) = x, fields that are None included.
C7_DomainRoundTrip ==
    (op = "to_api_format, from_api_format") =>
        (Returned(ret.back) /\ ret.back.val = arg.val)

\* an AuthorAttribution without uri and photo_uri comes back unchanged
C7_Witness ==
    /\ op = "to_api_format, from_api_format"
    /\ arg.cls = "AuthorAttribution"
    /\ arg.val.fields[n_uri] = None
    /\ arg.val.fields[n_photo_uri] = None
    /\ k_photoUri \in DOMAIN ret.there.val
    /\ Returned(ret.back)
    /\ ret.back.val = arg.val

\* C8: for every wire object w that from_api_format accepts,
\* to_api_format(from_api_format(w)) = w, wire objects with absent optional
\* keys included.
C8_WireRoundTrip ==
    (op = "from_api_format, to_api_format" /\ Returned(ret.there)) =>
        (Returned(ret.back) /\ ret.back.val = arg.val)

(***************************************************************************)
(* Photo and Review                                                        *)
(***************************************************************************)
\* a list comprehension over decoded elements: the decoded first element
\* followed by the decoded rest, or what the first failing element raises
ConsResult(first, rest) ==
    IF ~first.ok THEN first
    ELSE IF ~rest.ok THEN rest
    ELSE [ok |-> TRUE, val |-> <<first.val>> \o rest.val]

RECURSIVE DecodeAll(_, _)
\* [cls.from_api_format(data) for data in items]
DecodeAll(cls, items) ==
    IF items = <<>> THEN [ok |-> TRUE, val |-> <<>>]
    ELSE ConsResult(from_api_format(cls, Head(items)), DecodeAll(cls, Tail(items)))

\* cls(name, height, width, authors)
PhotoOf(data, authors) ==
    IF ~authors.ok THEN authors
    ELSE [ok |-> TRUE,
          val |-> [cls |-> "Photo",
                   name |-> data.name,
                   height |-> data.heightPx,
                   width |-> data.widthPx,
                   authot_attributions |-> authors.val]]

\* Photo.from_api_format
Photo_from_api_format(data) ==
    IF ~HasKeys(data, {"name", "widthPx", "heightPx", "authorAttributions"})
    THEN KeyError
    ELSE PhotoOf(data, DecodeAll("AuthorAttribution", data.authorAttributions))

RECURSIVE PhotoList(_)
\* [Photo.from_api_format(data) for data in value]
PhotoList(items) ==
    IF items = <<>> THEN [ok |-> TRUE, val |-> <<>>]
    ELSE ConsResult(Photo_from_api_format(Head(items)), PhotoList(Tail(items)))

\* dateutil.parser.parse on the timestamps of the model
ParseTime(s) ==
    IF s = "2024-05-01T10:30:00Z"
    THEN [ok |-> TRUE,
          val |-> [year |-> 2024, month |-> 5, day |-> 1,
                   hour |-> 10, minute |-> 30, second |-> 0, tz |-> "UTC"]]
    ELSE [ok |-> FALSE, err |-> "ValueError"]

\* cls(**data) once the four nested entries of data are decoded
ReviewOf(data, text, original, author, time) ==
    IF ~text.ok THEN text
    ELSE IF ~original.ok THEN original
    ELSE IF ~author.ok THEN author
    ELSE IF ~time.ok THEN time
    ELSE Construct("Review",
            [f \in DOMAIN data |->
                CASE f = n_text -> text.val
                  [] f = n_original_text -> original.val
                  [] f = n_author_attribution -> author.val
                  [] f = n_publish_time -> time.val
                  [] OTHER -> data[f]])

\* Review.from_api_format on the dict with snake-cased keys
ReviewFromSnake(data) ==
    IF ~({n_text, n_original_text, n_author_attribution, n_publish_time} \subseteq DOMAIN data)
    THEN KeyError
    ELSE ReviewOf(data,
                  from_api_format("LocalizedString", data[n_text]),
                  from_api_format("LocalizedString", data[n_original_text]),
                  from_api_format("AuthorAttribution", data[n_author_attribution]),
                  ParseTime(data[n_publish_time]))

\* Review.from_api_format
Review_from_api_format(wire) == ReviewFromSnake(SnakeKeys(wire))

RECURSIVE ReviewList(_)
\* [Review.from_api_format(data) for data in value]
ReviewList(items) ==
    IF items = <<>> THEN [ok |-> TRUE, val |-> <<>>]
    ELSE ConsResult(Review_from_api_format(Head(items)), ReviewList(Tail(items)))

(***************************************************************************)
(* Place.from_api_format                                                   *)
(***************************************************************************)
p_accessibility_options == <<"a", "c", "c", "e", "s", "s", "i", "b", "i", "l", "i", "t", "y", "_", "o", "p", "t", "i", "o", "n", "s">>

p_address_components == <<"a", "d", "d", "r", "e", "s", "s", "_", "c", "o", "m", "p", "o", "n", "e", "n", "t", "s">>

p_business_status == <<"b", "u", "s", "i", "n", "e", "s", "s", "_", "s", "t", "a", "t", "u", "s">>

p_display_name == <<"d", "i", "s", "p", "l", "a", "y", "_", "n", "a", "m", "e">>

p_location == <<"l", "o", "c", "a", "t", "i", "o", "n">>

p_photos == <<"p", "h", "o", "t", "o", "s">>

p_plus_code == <<"p", "l", "u", "s", "_", "c", "o", "d", "e">>

p_primary_type_display_name == <<"p", "r", "i", "m", "a", "r", "y", "_", "t", "y", "p", "e", "_", "d", "i", "s", "p", "l", "a", "y", "_", "n", "a", "m", "e">>

p_viewport == <<"v", "i", "e", "w", "p", "o", "r", "t">>

p_current_opening_hours == <<"c", "u", "r", "r", "e", "n", "t", "_", "o", "p", "e", "n", "i", "n", "g", "_", "h", "o", "u", "r", "s">>

p_current_secondary_opening_hours == <<"c", "u", "r", "r", "e", "n", "t", "_", "s", "e", "c", "o", "n", "d", "a", "r", "y", "_", "o", "p", "e", "n", "i", "n", "g", "_", "h", "o", "u", "r", "s">>

p_regular_opening_hours == <<"r", "e", "g", "u", "l", "a", "r", "_", "o", "p", "e", "n", "i", "n", "g", "_", "h", "o", "u", "r", "s">>

p_regular_secondary_opening_hours == <<"r", "e", "g", "u", "l", "a", "r", "_", "s", "e", "c", "o", "n", "d", "a", "r", "y", "_", "o", "p", "e", "n", "i", "n", "g", "_", "h", "o", "u", "r", "s">>

p_price_level == <<"p", "r", "i", "c", "e", "_", "l", "e", "v", "e", "l">>

p_parking_options == <<"p", "a", "r", "k", "i", "n", "g", "_", "o", "p", "t", "i", "o", "n", "s">>

p_payment_options == <<"p", "a", "y", "m", "e", "n", "t", "_", "o", "p", "t", "i", "o", "n", "s">>

p_reviews == <<"r", "e", "v", "i", "e", "w", "s">>

OpeningHoursFields == {p_current_opening_hours, p_current_secondary_opening_hours,
                       p_regular_opening_hours, p_regular_secondary_opening_hours}

\* the "match key" of _from_api_format: the value of the field key in the
\* class format, or what its decoder raises
DecodeField(key, value) ==
    CASE key = p_accessibility_options -> [ok |-> TRUE, val |-> SnakeKeys(value)]
      [] key = p_address_components -> DecodeAll("AddressComponent", value)
      [] key = p_business_status -> BusinessStatus_from_api_format(value)
      [] key = p_display_name -> from_api_format("LocalizedString", value)
      [] key = p_location ->
            IF HasKeys(value, {"latitude", "longitude"})
            THEN [ok |-> TRUE, val |-> <<value.latitude, value.longitude>>]
            ELSE KeyError
      [] key = p_photos -> PhotoList(value)
      [] key = p_plus_code -> PlusCode_from_api_format(value)
      [] key = p_primary_type_display_name -> from_api_format("LocalizedString", value)
      [] key = p_viewport -> RectangularArea_from_api_format(value)
      [] key \in OpeningHoursFields -> OpeningHours_from_api_format(value)
      [] key = p_price_level -> PriceLevel_from_api_format(value)
      [] key = p_parking_options -> from_api_format("ParkingOptions", value)
      [] key = p_payment_options -> from_api_format("PaymentOptions", value)
      [] key = p_reviews -> ReviewList(value)
      [] OTHER -> [ok |-> TRUE, val |-> value]

\* return key, value
FieldResult(key, r) == IF r.ok THEN [ok |-> TRUE, key |-> key, val |-> r.val] ELSE r

\* _from_api_format from "match key" on
MatchKey(key, value) == FieldResult(key, DecodeField(key, value))

\* _from_api_format(key, value): the pair (key, value) in the class format
from_api_format_field(key, value) == MatchKey(snakecase(key), value)

\* (variant: every converted key is kept)
KeepsKey_any(key) == TRUE

\* if key in valid_fields
KeepsKey(key) == key \in ValidFields

\* values[key] = value; the value of an optional field that is set is <<value>>
SetValue(values, key, value) ==
    [k \in DOMAIN values \cup {key} |-> IF k = key THEN <<value>> ELSE values[k]]

\* the values after item number i, converted to r, is looked at
Collect(values, r) == IF KeepsKey(r.key) THEN SetValue(values, r.key, r.val) ELSE values

RECURSIVE PlaceLoop(_, _, _)
RECURSIVE PlaceStep(_, _, _, _)
\* the body of "for key, value in data.items()", from item number i on
PlaceLoop(items, i, values) ==
    IF i > Len(items) THEN [ok |-> TRUE, val |-> values]
    ELSE PlaceStep(items, i, values, from_api_format_field(items[i][1], items[i][2]))

\* one turn of the loop, r being the converted item number i
PlaceStep(items, i, values, r) ==
    IF ~r.ok THEN r ELSE PlaceLoop(items, i + 1, Collect(values, r))

\* cls(**values)
ConstructFrom(cls, r) == IF r.ok THEN Construct(cls, r.val) ELSE r

\* Place.from_api_format(data); items are the items of data in dict order
Place_from_api_format(items) == ConstructFrom("Place", PlaceLoop(items, 1, <<>>))

\* ---- inputs ----
w_id == <<"i", "d">>

w_rating == <<"r", "a", "t", "i", "n", "g">>

w_displayName == <<"d", "i", "s", "p", "l", "a", "y", "N", "a", "m", "e">>

w_display_name == <<"d", "i", "s", "p", "l", "a", "y", "_", "n", "a", "m", "e">>

w_priceLevel == <<"p", "r", "i", "c", "e", "L", "e", "v", "e", "l">>

w_businessStatus == <<"b", "u", "s", "i", "n", "e", "s", "s", "S", "t", "a", "t", "u", "s">>

w_location == <<"l", "o", "c", "a", "t", "i", "o", "n">>

w_regularOpeningHours == <<"r", "e", "g", "u", "l", "a", "r", "O", "p", "e", "n", "i", "n", "g", "H", "o", "u", "r", "s">>

w_paymentOptions == <<"p", "a", "y", "m", "e", "n", "t", "O", "p", "t", "i", "o", "n", "s">>

w_futureField == <<"f", "u", "t", "u", "r", "e", "F", "i", "e", "l", "d">>

w_takeoutOnly == <<"t", "a", "k", "e", "o", "u", "t", "O", "n", "l", "y">>

BadPriceLevel == PriceLevelPrefix \o <<"C", "H", "E", "A", "P">>

GoodPriceLevel == PriceLevelPrefix \o <<"M", "O", "D", "E", "R", "A", "T", "E">>

SundayHours ==
    [periods |-> <<[open |-> [day |-> 0, hour |-> 9, minute |-> 0],
                    close |-> [day |-> 0, hour |-> 17, minute |-> 30]]>>,
     weekdayDescriptions |-> "descriptions"]

RomaName == Merge([k \in {k_text} |-> "Roma"], [k \in {k_languageCode} |-> "it"])

RomeName == Merge([k \in {k_text} |-> "Rome"], [k \in {k_languageCode} |-> "en"])

\* the (key, value) items a wire object of the model is made of
PlaceItems == {
    <<w_id, "ChIJ1">>,
    <<w_rating, 45>>,
    <<w_displayName, RomaName>>,
    <<w_display_name, RomeName>>,
    <<w_priceLevel, GoodPriceLevel>>,
    <<w_priceLevel, BadPriceLevel>>,
    <<w_businessStatus, <<"O", "P", "E", "R", "A", "T", "I", "O", "N", "A", "L">>>>,
    <<w_location, [latitude |-> 45, longitude |-> 9]>>,
    <<w_regularOpeningHours, SundayHours>>,
    <<w_paymentOptions, [k \in {k_acceptsNfc} |-> <<TRUE>>]>>,
    <<w_futureField, 1>>,
    <<w_takeoutOnly, TRUE>>
}

DistinctKeys(items) == \A i, j \in 1..Len(items) : i # j => items[i][1] # items[j][1]

\* wire objects: their items in dict order, no key twice
PlaceInputs == {items \in SeqsUpTo(PlaceItems, MaxKeys) : DistinctKeys(items)}

InitPlace ==
    /\ op = "idle" /\ arg \in PlaceInputs /\ ret = NotRun
    /\ client = None /\ calls = <<>> /\ sent = <<>>

DecodePlace ==
    /\ op = "idle"
    /\ op' = "Place.from_api_format"
    /\ ret' = Place_from_api_format(arg)
    /\ UNCHANGED <<arg, client, calls, sent>>

NextPlace == DecodePlace

SpecPlace == InitPlace /\ [][NextPlace]_vars

(***************************************************************************)
(* Properties of Place.from_api_format (checked under SpecPlace)           *)
(***************************************************************************)
PlaceDone == op = "Place.from_api_format"

\* the Place field a wire key of the model stands for; <<>> when the key
\* is not one of a Place field
FieldOfKey(key) ==
    CASE key = w_id -> <<"i", "d">>
      [] key = w_rating -> <<"r", "a", "t", "i", "n", "g">>
      [] key = w_displayName -> <<"d", "i", "s", "p", "l", "a", "y", "_", "n", "a", "m", "e">>
      [] key = w_display_name -> <<"d", "i", "s", "p", "l", "a", "y", "_", "n", "a", "m", "e">>
      [] key = w_priceLevel -> <<"p", "r", "i", "c", "e", "_", "l", "e", "v", "e", "l">>
      [] key = w_businessStatus -> <<"b", "u", "s", "i", "n", "e", "s", "s", "_", "s", "t", "a", "t", "u", "s">>
      [] key = w_location -> <<"l", "o", "c", "a", "t", "i", "o", "n">>
      [] key = w_regularOpeningHours -> <<"r", "e", "g", "u", "l", "a", "r", "_", "o", "p", "e", "n", "i", "n", "g", "_", "h", "o", "u", "r", "s">>
      [] key = w_paymentOptions -> <<"p", "a", "y", "m", "e", "n", "t", "_", "o", "p", "t", "i", "o", "n", "s">>
      [] OTHER -> <<>>

KeysOf(items) == {items[i][1] : i \in 1..Len(items)}

HasMalformedValue(items) ==
    \E i \in 1..Len(items) : items[i][1] = w_priceLevel /\ items[i][2] = BadPriceLevel

\* C9: every key whose snake-cased name is not a field of Place is dropped
\* without an error, every key that is a Place field is populated, and every
\* other field of the resulting Place is None; the empty wire object decodes
\* to a Place with all fields None.  (An error can only come from the
\* decoder of a key that is a Place field.)
C9_UnknownKeysDropped ==
    PlaceDone =>
        /\ Returned(ret) <=> ~HasMalformedValue(arg)
        /\ Returned(ret) =>
              /\ DOMAIN ret.val.fields = ValidFields
              /\ \A f \in ValidFields :
                    (ret.val.fields[f] # None) <=> (\E k \in KeysOf(arg) : FieldOfKey(k) = f)

\* {"futureField": 1, "id": "ChIJ1"} decodes to a Place that has only id
C9_Witness ==
    /\ PlaceDone
    /\ Len(arg) = 2
    /\ arg[1][1] = w_futureField
    /\ arg[2][1] = w_id
    /\ Returned(ret)
    /\ ret.val.fields[<<"i", "d">>] = <<"ChIJ1">>
    /\ \A f \in ValidFields \ {<<"i", "d">>} : ret.val.fields[f] = None

(***************************************************************************)
(* APIError                                                                *)
(***************************************************************************)
\* a JSON object received from the transport is the sequence of its
\* (key, value) items; data.get(key) is None or <<value>>
ItemGet(items, key) ==
    IF \E i \in 1..Len(items) : items[i][1] = key
    THEN <<items[CHOOSE i \in 1..Len(items) : items[i][1] = key][2]>>
    ELSE None

w_message == <<"m", "e", "s", "s", "a", "g", "e">>

w_status == <<"s", "t", "a", "t", "u", "s">>

w_details == <<"d", "e", "t", "a", "i", "l", "s">>

w_places == <<"p", "l", "a", "c", "e", "s">>

w_nextPageToken == <<"n", "e", "x", "t", "P", "a", "g", "e", "T", "o", "k", "e", "n">>

w_photoUri == <<"p", "h", "o", "t", "o", "U", "r", "i">>

\* (variant: the body of the response is not looked at)
APIError_from_api_response_bare(code, response) ==
    [ok |-> FALSE,
     err |-> "APIError",
     status_code |-> code,
     message |-> None,
     status |-> None,
     details |-> None]

\* APIError.from_api_response(code, response), as a raised exception
APIError_from_api_response(code, response) ==
    [ok |-> FALSE,
     err |-> "APIError",
     status_code |-> code,
     message |-> ItemGet(response, w_message),
     status |-> ItemGet(response, w_status),
     details |-> ItemGet(response, w_details)]

\* APIError.__str__
APIError_str(e) ==
    <<"APIError: ", IF e.message = None \/ e.message = <<"">> THEN "Unknown error" ELSE e.message[1]>>

(***************************************************************************)
(* Client                                                                  *)
(***************************************************************************)
\* a call of a client operation that has raised: the exception and the
\* line of _client.py whose statement it came out of
RaisedAt(r, line) == Merge(r, [at |-> line])

ValueErrorAt(msg, line) == [ok |-> FALSE, err |-> "ValueError", msg |-> msg, at |-> line]

\* what the part of an operation before its await gives: either it raised
\* (outcome, no request) or it handed one request to the session
Stopped(outcome) == [raised |-> TRUE, outcome |-> outcome, requests |-> <<>>]

HandsOver(request) == [raised |-> FALSE, outcome |-> NotRun, requests |-> <<request>>]

ApiKeyPrefix == <<"A", "I", "z", "a">>

GoodApiKey == <<"A", "I", "z", "a", "S", "y", "K", "1">>

\* Client.__init__(api_key); env is the value of GOOGLE_MAPS_API_KEY
Client_init(api_key, env) ==
    LET key == IF api_key # None /\ api_key # <<(<<>>)>> THEN api_key ELSE env IN
    IF key = None
    THEN ValueErrorAt("An API key must be provided either as an argument or through the GOOGLE_MAPS_API_KEY environment variable.", 46)
    ELSE IF ~StartsWith(key[1], ApiKeyPrefix)
    THEN ValueErrorAt("The provided API key is invalid.", 50)
    ELSE [ok |-> TRUE, val |-> [api_key |-> key[1], session |-> "aiohttp.ClientSession"]]

\* x or []
OrEmptyList(x) == IF x = None THEN <<>> ELSE x[1]

EmptyDict == [k \in {} |-> None]

\* the headers of the three places endpoints
PlacesHeaders(self, mask) ==
    [k \in {"X-Goog-Api-Key", "X-Goog-FieldMask"} |->
        IF k = "X-Goog-Api-Key" THEN self.api_key ELSE mask]

\* url, headers and body of the nearby search, mask being what
\* create_field_mask returned or raised
NearbyRequest(self, p, mask) ==
    IF ~mask.ok THEN Stopped(RaisedAt(mask, 113))
    ELSE HandsOver(
            [method |-> "POST",
             url |-> "https://places.googleapis.com/v1/places:searchNearby",
             headers |-> PlacesHeaders(self, mask.val),
             json |-> [locationRestriction |-> [circle |-> CircularArea_to_api_format(p.area)],
                       languageCode |-> p.language_code,
                       maxResultCount |-> p.max_num_results,
                       rankPreference |-> Upper(p.rank_by),
                       includedTypes |-> OrEmptyList(p.included_types),
                       excludedTypes |-> OrEmptyList(p.excluded_types),
                       includedPrimaryTypes |-> OrEmptyList(p.included_primary_types),
                       excludedPrimaryTypes |-> OrEmptyList(p.excluded_primary_types)]])

\* (variant: zero results may be asked for)
search_nearby_places_begin_zero(self, p, order, invalid_order) ==
    IF ~(0 <= p.max_num_results /\ p.max_num_results <= 20)
    THEN Stopped(ValueErrorAt("The maximum number of results must be between in the range [1, 20].", 108))
    ELSE NearbyRequest(self, p, create_field_mask(p.fields, TRUE, order, invalid_order))

\* search_nearby_places up to "async with self._session.post(...)"
search_nearby_places_begin(self, p, order, invalid_order) ==
    IF ~(0 < p.max_num_results /\ p.max_num_results <= 20)
    THEN Stopped(ValueErrorAt("The maximum number of results must be between in the range [1, 20].", 108))
    ELSE NearbyRequest(self, p, create_field_mask(p.fields, TRUE, order, invalid_order))

RECURSIVE PlaceList(_)
\* [places.Place.from_api_format(item) for item in data["places"]]
PlaceList(items) ==
    IF items = <<>> THEN [ok |-> TRUE, val |-> <<>>]
    ELSE ConsResult(Place_from_api_format(Head(items)), PlaceList(Tail(items)))

\* what a statement of line line gives when it evaluates to r
ResultAt(r, line) == IF ~r.ok THEN RaisedAt(r, line) ELSE r

\* (variant: a body without places is read as an empty list of places)
search_nearby_places_end_lenient(status, data) ==
    IF status # 200 THEN RaisedAt(APIError_from_api_response(status, data), 130)
    ELSE IF ItemGet(data, w_places) = None THEN [ok |-> TRUE, val |-> <<>>]
    ELSE ResultAt(PlaceList(ItemGet(data, w_places)[1]), 133)

\* search_nearby_places from the response on
search_nearby_places_end(status, data) ==
    IF status # 200 THEN RaisedAt(APIError_from_api_response(status, data), 130)
    ELSE IF ItemGet(data, w_places) = None THEN RaisedAt(KeyError, 133)
    ELSE ResultAt(PlaceList(ItemGet(data, w_places)[1]), 133)

\* PriceLevel.FREE
PriceLevelFree == CHOOSE x \in EnumValues("PriceLevel", PriceLevelMembers) : x.value = <<"f", "r", "e", "e">>

Contains(list, x) == \E i \in 1..Len(list) : list[i] = x

\* (variant: the page size is looked at before the two areas)
TextSearchChecks_reordered(p) ==
    IF p.query = ""
    THEN ValueErrorAt("The query must not be empty.", 204)
    ELSE IF ~(0 < p.page_size /\ p.page_size <= 20)
    THEN ValueErrorAt("The maximum number of results must be between in the range [1, 20].", 212)
    ELSE IF p.bias_area # None /\ p.restrict_area # None
    THEN ValueErrorAt("You can't specify both a bias area and a restrict area.", 208)
    ELSE IF p.min_rating # None /\ ~(0 <= p.min_rating[1] /\ p.min_rating[1] <= 50)
    THEN ValueErrorAt("The minimum rating must be between 0 and 5.", 216)
    ELSE IF Contains(OrEmptyList(p.price_levels), PriceLevelFree)
    THEN ValueErrorAt("The FREE price level cannot be used in the price_levels argument.", 220)
    ELSE NotRun

\* the checks of search_places_by_text on its parameters, in code order:
\* the exception of the first one that fails, NotRun when none does
TextSearchChecks(p) ==
    IF p.query = ""
    THEN ValueErrorAt("The query must not be empty.", 204)
    ELSE IF p.bias_area # None /\ p.restrict_area # None
    THEN ValueErrorAt("You can't specify both a bias area and a restrict area.", 208)
    ELSE IF ~(0 < p.page_size /\ p.page_size <= 20)
    THEN ValueErrorAt("The maximum number of results must be between in the range [1, 20].", 212)
    ELSE IF p.min_rating # None /\ ~(0 <= p.min_rating[1] /\ p.min_rating[1] <= 50)
    THEN ValueErrorAt("The minimum rating must be between 0 and 5.", 216)
    ELSE IF Contains(OrEmptyList(p.price_levels), PriceLevelFree)
    THEN ValueErrorAt("The FREE price level cannot be used in the price_levels argument.", 220)
    ELSE NotRun

\* the body of the text search without its location entries
TextSearchBody(p) ==
    Merge(Merge(Merge(Merge(
        [textQuery |-> p.query,
         languageCode |-> p.language_code,
         pageSize |-> p.page_size,
         rankPreference |-> Upper(p.rank_by),
         openNow |-> p.open_now],
        IF p.included_type # None
        THEN [includedType |-> p.included_type[1], strictTypeFiltering |-> TRUE]
        ELSE EmptyDict),
        IF p.next_page_token # None THEN [pageToken |-> p.next_page_token[1]] ELSE EmptyDict),
        IF p.min_rating # None THEN [minRating |-> p.min_rating[1]] ELSE EmptyDict),
        IF p.price_levels # None /\ p.price_levels[1] # <<>>
        THEN [priceLevels |-> [i \in 1..Len(p.price_levels[1]) |->
                                  PriceLevel_to_api_format(p.price_levels[1][i])]]
        ELSE EmptyDict)

\* (variant: every bias area goes under the key circle)
LocationBias_circle(p) ==
    IF p.bias_area = None THEN EmptyDict
    ELSE IF p.bias_area[1].cls = "CircularArea"
    THEN [locationBias |-> [circle |-> CircularArea_to_api_format(p.bias_area[1])]]
    ELSE IF p.bias_area[1].cls = "RectangularArea"
    THEN [locationBias |-> [circle |-> RectangularArea_to_api_format(p.bias_area[1])]]
    ELSE EmptyDict

\* body["locationBias"], by the class of bias_area
LocationBias(p) ==
    IF p.bias_area = None THEN EmptyDict
    ELSE IF p.bias_area[1].cls = "CircularArea"
    THEN [locationBias |-> [circle |-> CircularArea_to_api_format(p.bias_area[1])]]
    ELSE IF p.bias_area[1].cls = "RectangularArea"
    THEN [locationBias |-> [rectangle |-> RectangularArea_to_api_format(p.bias_area[1])]]
    ELSE EmptyDict

\* not isinstance(restrict_area, places.RectangularArea)
NotRectangular(area) == area.cls # "RectangularArea"

TextSearchRequest(self, p, mask) ==
    [method |-> "POST",
     url |-> "https://places.googleapis.com/v1/places:searchText",
     headers |-> PlacesHeaders(self, mask),
     json |-> Merge(Merge(TextSearchBody(p), LocationBias(p)),
                    IF p.restrict_area # None /\ ~NotRectangular(p.restrict_area[1])
                    THEN [locationRestriction |->
                            [rectangle |-> RectangularArea_to_api_format(p.restrict_area[1])]]
                    ELSE EmptyDict)]

\* (variant: the shape of restrict_area is looked at once the request is out)
TextSearchPrepare_late(self, p, failed, mask) ==
    IF failed # NotRun THEN Stopped(failed)
    ELSE IF ~mask.ok THEN Stopped(RaisedAt(mask, 225))
    ELSE IF p.restrict_area # None /\ NotRectangular(p.restrict_area[1])
    THEN [raised |-> TRUE,
          outcome |-> ValueErrorAt("The restrict area must be a rectangular area.", 251),
          requests |-> <<TextSearchRequest(self, p, mask.val)>>]
    ELSE HandsOver(TextSearchRequest(self, p, mask.val))

\* search_places_by_text from its first line to the post, failed being what
\* the checks of the parameters gave and mask what create_field_mask gave
TextSearchPrepare(self, p, failed, mask) ==
    IF failed # NotRun THEN Stopped(failed)
    ELSE IF ~mask.ok THEN Stopped(RaisedAt(mask, 225))
    ELSE IF p.restrict_area # None /\ NotRectangular(p.restrict_area[1])
    THEN Stopped(ValueErrorAt("The restrict area must be a rectangular area.", 251))
    ELSE HandsOver(TextSearchRequest(self, p, mask.val))

\* search_places_by_text up to "async with self._session.post(...)"
search_places_by_text_begin(self, p, order, invalid_order) ==
    TextSearchPrepare(self, p, TextSearchChecks(p),
                      create_field_mask(p.fields, TRUE, order, invalid_order))

\* (variant: the token of the response is left behind)
WithToken_dropped(results, token) ==
    IF ~results.ok THEN results ELSE [ok |-> TRUE, val |-> <<results.val, None>>]

\* return results, next_page_token
WithToken(results, token) ==
    IF ~results.ok THEN results ELSE [ok |-> TRUE, val |-> <<results.val, token>>]

\* search_places_by_text from the response on
search_places_by_text_end(status, data) ==
    IF status # 200 THEN RaisedAt(APIError_from_api_response(status, data), 262)
    ELSE IF ItemGet(data, w_places) = None THEN RaisedAt(KeyError, 266)
    ELSE ResultAt(WithToken(PlaceList(ItemGet(data, w_places)[1]),
                            ItemGet(data, w_nextPageToken)), 266)

\* url, headers and query of the details request
DetailsRequest(self, p, mask) ==
    IF ~mask.ok THEN Stopped(RaisedAt(mask, 306))
    ELSE HandsOver(
            [method |-> "GET",
             url |-> <<"https://places.googleapis.com/v1/places/", p.place_id>>,
             headers |-> PlacesHeaders(self, mask.val),
             params |-> [languageCode |-> p.language_code]])

\* get_place_details up to "async with self._session.get(...)"
get_place_details_begin(self, p, order, invalid_order) ==
    IF p.place_id = ""
    THEN Stopped(ValueErrorAt("The place ID must not be empty.", 301))
    ELSE DetailsRequest(self, p, create_field_mask(p.fields, FALSE, order, invalid_order))

\* get_place_details from the response on
get_place_details_end(status, data) ==
    IF status # 200 THEN RaisedAt(APIError_from_api_response(status, data), 313)
    ELSE ResultAt(Place_from_api_format(data), 316)

RECURSIVE LStrip(_, _)
LStrip(s, c) == IF s # <<>> /\ s[1] = c THEN LStrip(Tail(s), c) ELSE s

RECURSIVE RStrip(_, _)
RStrip(s, c) ==
    IF s # <<>> /\ s[Len(s)] = c THEN RStrip(SubSeq(s, 1, Len(s) - 1), c) ELSE s

\* str.strip(c)
Strip(s, c) == RStrip(LStrip(s, c), c)

\* (variant: of two given bounds the smaller one is sent)
PhotoSizeParameter_min(p) ==
    IF p.max_width # None /\ p.max_height # None
    THEN IF p.max_height[1] < p.max_width[1]
         THEN [maxHeightPx |-> p.max_height[1]]
         ELSE [maxWidthPx |-> p.max_width[1]]
    ELSE IF p.max_width # None THEN [maxWidthPx |-> p.max_width[1]]
    ELSE IF p.max_height # None THEN [maxHeightPx |-> p.max_height[1]]
    ELSE EmptyDict

\* the size parameter of the photo request: width when given, else height
PhotoSizeParameter(p) ==
    IF p.max_width # None THEN [maxWidthPx |-> p.max_width[1]]
    ELSE IF p.max_height # None THEN [maxHeightPx |-> p.max_height[1]]
    ELSE EmptyDict

\* (variant: the height is looked at only when no width is given)
get_photo_uri_begin_elif(self, p) ==
    IF p.max_width = None /\ p.max_height = None
    THEN Stopped(ValueErrorAt("At least one of max_width and max_height must be provided.", 351))
    ELSE IF p.max_width # None /\ ~(1 <= p.max_width[1] /\ p.max_width[1] <= 4800)
    THEN Stopped(ValueErrorAt("The maximum width must be between 1 and 4800.", 355))
    ELSE IF p.max_width = None /\ ~(1 <= p.max_height[1] /\ p.max_height[1] <= 4800)
    THEN Stopped(ValueErrorAt("The maximum height must be between 1 and 4800.", 359))
    ELSE HandsOver(
            [method |-> "GET",
             url |-> <<"https://places.googleapis.com/v1/", Strip(p.photo.name, "/"), "/media">>,
             headers |-> [k \in {"X-Goog-Api-Key"} |-> self.api_key],
             params |-> Merge([skipHttpRedirect |-> "true"], PhotoSizeParameter(p))])

\* get_photo_uri up to "async with self._session.get(...)"
get_photo_uri_begin(self, p) ==
    IF p.max_width = None /\ p.max_height = None
    THEN Stopped(ValueErrorAt("At least one of max_width and max_height must be provided.", 351))
    ELSE IF p.max_width # None /\ ~(1 <= p.max_width[1] /\ p.max_width[1] <= 4800)
    THEN Stopped(ValueErrorAt("The maximum width must be between 1 and 4800.", 355))
    ELSE IF p.max_height # None /\ ~(1 <= p.max_height[1] /\ p.max_height[1] <= 4800)
    THEN Stopped(ValueErrorAt("The maximum height must be between 1 and 4800.", 359))
    ELSE HandsOver(
            [method |-> "GET",
             url |-> <<"https://places.googleapis.com/v1/", Strip(p.photo.name, "/"), "/media">>,
             headers |-> [k \in {"X-Goog-Api-Key"} |-> self.api_key],
             params |-> Merge([skipHttpRedirect |-> "true"], PhotoSizeParameter(p))])

\* get_photo_uri from the response on
get_photo_uri_end(status, data) ==
    IF status # 200 THEN RaisedAt(APIError_from_api_response(status, data), 373)
    ELSE IF ItemGet(data, w_photoUri) = None THEN RaisedAt(KeyError, 376)
    ELSE [ok |-> TRUE, val |-> ItemGet(data, w_photoUri)[1]]

\* ---- inputs ----
\* the lists of field names the operations are called with
ClientFieldLists == {<<>>, <<f_rating>>, <<f_unknown_field>>, <<Star>>}

TheCircle == [cls |-> "CircularArea", center |-> <<45, 9>>, radius |-> 500]

TheRectangle == [cls |-> "RectangularArea", south_west |-> <<45, 9>>, north_east |-> <<46, 10>>]

OptionalAreas == {None, <<TheCircle>>, <<TheRectangle>>}

OptionalTypeLists == {None, <<(<<"cafe">>)>>}

PriceLevelModerate ==
    CHOOSE x \in EnumValues("PriceLevel", PriceLevelMembers) : x.value = <<"m", "o", "d", "e", "r", "a", "t", "e">>

NearbyParams ==
    [area : {TheCircle},
     fields : ClientFieldLists,
     included_types : OptionalTypeLists,
     excluded_types : OptionalTypeLists,
     included_primary_types : OptionalTypeLists,
     excluded_primary_types : OptionalTypeLists,
     language_code : {"en"},
     max_num_results : {0, 1, 20, 21},
     rank_by : {<<"p", "o", "p", "u", "l", "a", "r", "i", "t", "y">>, <<"d", "i", "s", "t", "a", "n", "c", "e">>}]

\* min_rating in tenths: 5.0 is 50 and 5.5 is 55
TextParams ==
    [query : {"", "pizza"},
     fields : ClientFieldLists,
     included_type : {None, <<"restaurant">>},
     language_code : {"en"},
     bias_area : OptionalAreas,
     restrict_area : OptionalAreas,
     page_size : {0, 20, 21},
     next_page_token : {None, <<"page1">>},
     min_rating : {None, <<-5>>, <<50>>, <<55>>},
     open_now : {FALSE},
     price_levels : {None, <<(<<PriceLevelFree>>)>>, <<(<<PriceLevelModerate>>)>>},
     rank_by : {<<"r", "e", "l", "e", "v", "a", "n", "c", "e">>, <<"d", "i", "s", "t", "a", "n", "c", "e">>}]

DetailsParams ==
    [place_id : {"", "ChIJ1"},
     fields : ClientFieldLists,
     language_code : {"en"}]

ThePhoto ==
    [cls |-> "Photo", name |-> <<"/", "p", "l", "a", "c", "e", "s", "/", "p", "1", "/", "p", "h", "o", "t", "o", "s", "/", "a", "/">>, height |-> 300, width |-> 400,
     authot_attributions |-> <<>>]

PhotoParams ==
    [photo : {ThePhoto},
     max_width : {None, <<0>>, <<100>>, <<4800>>, <<5000>>},
     max_height : {None, <<0>>, <<50>>, <<200>>, <<4801>>}]

Statuses == {200, 400}

GoodPlace == << <<w_id, "ChIJ1">>, <<w_futureField, 1>> >>

BadPlace == << <<w_priceLevel, BadPriceLevel>> >>

ResponseBodies == {
    <<>>,
    << <<w_message, "Invalid argument">>, <<w_status, "INVALID_ARGUMENT">>,
       <<w_details, "fieldViolations">> >>,
    << <<w_places, <<>>>> >>,
    << <<w_places, <<GoodPlace>>>>, <<w_nextPageToken, "page2">> >>,
    << <<w_places, <<BadPlace>>>> >>,
    GoodPlace,
    << <<w_photoUri, "https://lh3.example.org/p1">> >>
}

(***************************************************************************)
(* The client as a state machine: every call runs up to its await in one   *)
(* step and is resumed by the response of the transport in another         *)
(***************************************************************************)
Idle == [pc |-> "idle"]

\* (variant: a call leaves a mark of itself in the key of the client)
Begin_marking(c, name, p, b) ==
    /\ calls' = [calls EXCEPT ![c] =
                    [pc |-> IF b.raised THEN "done" ELSE "awaiting",
                     op |-> name,
                     params |-> p,
                     response |-> None,
                     outcome |-> b.outcome]]
    /\ sent' = sent \o [i \in 1..Len(b.requests) |-> [caller |-> c, request |-> b.requests[i]]]
    /\ client' = [client EXCEPT !.api_key = ApiKeyPrefix]
    /\ UNCHANGED <<op, arg, ret>>

\* the call c has run up to its await (or has raised before it)
Begin(c, name, p, b) ==
    /\ calls' = [calls EXCEPT ![c] =
                    [pc |-> IF b.raised THEN "done" ELSE "awaiting",
                     op |-> name,
                     params |-> p,
                     response |-> None,
                     outcome |-> b.outcome]]
    /\ sent' = sent \o [i \in 1..Len(b.requests) |-> [caller |-> c, request |-> b.requests[i]]]
    /\ UNCHANGED <<client, op, arg, ret>>

\* the call c is resumed with the response (status, data) and ends
End(c, status, data, outcome) ==
    /\ calls' = [calls EXCEPT ![c] =
                    [@ EXCEPT !.pc = "done",
                              !.response = <<[status |-> status, data |-> data]>>,
                              !.outcome = outcome]]
    /\ UNCHANGED <<client, sent, op, arg, ret>>

Awaits(c, name) == calls[c].pc = "awaiting" /\ calls[c].op = name

MaskOrders(fields) == Orderings(ToSet(fields)) \X Orderings(InvalidFields(ToSet(fields)))

SearchNearbyPlaces(c, P) ==
    /\ calls[c].pc = "idle"
    /\ \E p \in P : \E o \in MaskOrders(p.fields) :
          Begin(c, "search_nearby_places", p, search_nearby_places_begin(client, p, o[1], o[2]))

SearchNearbyPlacesResumed(c) ==
    /\ Awaits(c, "search_nearby_places")
    /\ \E status \in Statuses, data \in ResponseBodies :
          End(c, status, data, search_nearby_places_end(status, data))

SearchPlacesByText(c, P) ==
    /\ calls[c].pc = "idle"
    /\ \E p \in P : \E o \in MaskOrders(p.fields) :
          Begin(c, "search_places_by_text", p, search_places_by_text_begin(client, p, o[1], o[2]))

SearchPlacesByTextResumed(c) ==
    /\ Awaits(c, "search_places_by_text")
    /\ \E status \in Statuses, data \in ResponseBodies :
          End(c, status, data, search_places_by_text_end(status, data))

GetPlaceDetails(c, P) ==
    /\ calls[c].pc = "idle"
    /\ \E p \in P : \E o \in MaskOrders(p.fields) :
          Begin(c, "get_place_details", p, get_place_details_begin(client, p, o[1], o[2]))

GetPlaceDetailsResumed(c) ==
    /\ Awaits(c, "get_place_details")
    /\ \E status \in Statuses, data \in ResponseBodies :
          End(c, status, data, get_place_details_end(status, data))

GetPhotoUri(c, P) ==
    /\ calls[c].pc = "idle"
    /\ \E p \in P : Begin(c, "get_photo_uri", p, get_photo_uri_begin(client, p))

GetPhotoUriResumed(c) ==
    /\ Awaits(c, "get_photo_uri")
    /\ \E status \in Statuses, data \in ResponseBodies :
          End(c, status, data, get_photo_uri_end(status, data))

\* the pure conversions are not in use while the client runs
NoConversion == op = "idle" /\ arg = None /\ ret = NotRun

Callers == {1}

InitClient ==
    /\ client = Client_init(<<GoodApiKey>>, None).val
    /\ calls = [c \in Callers |-> Idle]
    /\ sent = <<>>
    /\ NoConversion

NextClient ==
    \/ \E c \in Callers : SearchNearbyPlaces(c, NearbyParams)
    \/ \E c \in Callers : SearchNearbyPlacesResumed(c)
    \/ \E c \in Callers : SearchPlacesByText(c, TextParams)
    \/ \E c \in Callers : SearchPlacesByTextResumed(c)
    \/ \E c \in Callers : GetPlaceDetails(c, DetailsParams)
    \/ \E c \in Callers : GetPlaceDetailsResumed(c)
    \/ \E c \in Callers : GetPhotoUri(c, PhotoParams)
    \/ \E c \in Callers : GetPhotoUriResumed(c)

SpecClient == InitClient /\ [][NextClient]_vars

(***************************************************************************)
(* Properties of the client operations (checked under SpecClient)          *)
(***************************************************************************)
\* the lines of _client.py at which a check of the parameters raises
ValidationLines == {108, 113, 204, 208, 212, 216, 220, 225, 251, 301, 306, 351, 355, 359}

FailedValidation(call) ==
    /\ call.pc = "done"
    /\ ~call.outcome.ok
    /\ call.outcome.err = "ValueError"
    /\ call.outcome.at \in ValidationLines

RequestsOf(c) == {i \in 1..Len(sent) : sent[i].caller = c}

\* C10: in every execution of any of the four operations, a call that fails
\* with a validation error has issued no transport request.
C10_ValidationBeforeTransport ==
    \A c \in DOMAIN calls : FailedValidation(calls[c]) => RequestsOf(c) = {}

\* a text search with a circular restrict_area fails, nothing was sent
C10_Witness ==
    \E c \in DOMAIN calls :
        /\ FailedValidation(calls[c])
        /\ calls[c].op = "search_places_by_text"
        /\ calls[c].outcome.at = 251
        /\ calls[c].params.restrict_area = <<TheCircle>>
        /\ RequestsOf(c) = {}

\* the text searches that have been called
TextSearches == {c \in DOMAIN calls : calls[c].pc # "idle" /\ calls[c].op = "search_places_by_text"}

\* the violations of a text search, each named by the line of _client.py
\* that reports it; the order of the lines is the order of the checks
EmptyQuery(p) == IF p.query = "" THEN {204} ELSE {}

BothAreas(p) == IF p.bias_area # None /\ p.restrict_area # None THEN {208} ELSE {}

PageSizeOutOfRange(p) == IF p.page_size < 1 \/ p.page_size > 20 THEN {212} ELSE {}

MinRatingOutOfRange(p) ==
    IF p.min_rating # None /\ (p.min_rating[1] < 0 \/ p.min_rating[1] > 50) THEN {216} ELSE {}

FreePriceLevel(p) ==
    IF p.price_levels # None
       /\ \E i \in 1..Len(p.price_levels[1]) : p.price_levels[1][i].value = <<"f", "r", "e", "e">>
    THEN {220} ELSE {}

Violations(p) ==
    EmptyQuery(p) \cup BothAreas(p) \cup PageSizeOutOfRange(p)
        \cup MinRatingOutOfRange(p) \cup FreePriceLevel(p)

Earliest(lines) == CHOOSE l \in lines : \A m \in lines : l <= m

\* the call has failed with the ValueError raised at line
FailedAt(call, line) ==
    /\ call.pc = "done"
    /\ call.response = None
    /\ call.outcome.err = "ValueError"
    /\ call.outcome.at = line

\* C11: a text search with at least one violated parameter check (empty
\* query, both areas, page_size outside [1,20], min_rating outside [0,5],
\* FREE in price_levels) fails with the validation error of the earliest
\* violated check in that order; with none violated (min_rating 5.0
\* included) it fails at none of these checks.
C11_EarliestViolationReported ==
    \A c \in TextSearches :
        IF Violations(calls[c].params) # {}
        THEN FailedAt(calls[c], Earliest(Violations(calls[c].params)))
        ELSE \A line \in {204, 208, 212, 216, 220} : ~FailedAt(calls[c], line)

\* both areas, a page size of 21, a rating of 5.5 and FREE at once: the
\* failure is the one about the two areas
C11_Witness ==
    \E c \in TextSearches :
        /\ Violations(calls[c].params) = {208, 212, 216, 220}
        /\ FailedAt(calls[c], 208)
        /\ RequestsOf(c) = {}

\* the wire key of an area and the area in wire format
AreaKey(area) == IF area.cls = "CircularArea" THEN "circle" ELSE "rectangle"

AreaOnWire(area) ==
    IF area.cls = "CircularArea"
    THEN CircularArea_to_api_format(area)
    ELSE RectangularArea_to_api_format(area)

\* the entry key of the body json holds exactly the area, under its wire key
HoldsArea(json, key, area) ==
    /\ key \in DOMAIN json
    /\ DOMAIN json[key] = {AreaKey(area)}
    /\ json[key][AreaKey(area)] = AreaOnWire(area)

\* the bodies of the requests the call c has issued
BodiesOf(c) == {sent[i].request.json : i \in RequestsOf(c)}

\* C12: a text search with a CircularArea as restrict_area fails with a
\* validation error; in every request of a text search a RectangularArea
\* restrict_area is under locationRestriction.rectangle, a bias_area is
\* under locationBias with the key of its variant (circle or rectangle),
\* and the body never has both locationBias and locationRestriction.
C12_AreaPlacement ==
    \A c \in TextSearches :
        /\ (calls[c].params.restrict_area # None
                /\ calls[c].params.restrict_area[1].cls = "CircularArea")
              => FailedValidation(calls[c])
        /\ \A json \in BodiesOf(c) :
              /\ calls[c].params.restrict_area # None
                    => /\ calls[c].params.restrict_area[1].cls = "RectangularArea"
                       /\ HoldsArea(json, "locationRestriction", calls[c].params.restrict_area[1])
              /\ calls[c].params.bias_area # None
                    => HoldsArea(json, "locationBias", calls[c].params.bias_area[1])
              /\ ~({"locationBias", "locationRestriction"} \subseteq DOMAIN json)

\* a text search biased to a rectangle has sent it under locationBias.rectangle
C12_Witness ==
    \E c \in TextSearches :
        /\ calls[c].params.bias_area = <<TheRectangle>>
        /\ \E json \in BodiesOf(c) :
              /\ "locationBias" \in DOMAIN json
              /\ DOMAIN json.locationBias = {"rectangle"}
              /\ json.locationBias.rectangle.low = [latitude |-> 45, longitude |-> 9]
              /\ "locationRestriction" \notin DOMAIN json

\* the calls that were resumed by a response and have ended
Answered == {c \in DOMAIN calls : calls[c].pc = "done" /\ calls[c].response # None}

\* the exception e is an APIError made of the response (status, data)
IsAPIErrorOf(e, status, data) ==
    /\ ~e.ok
    /\ e.err = "APIError"
    /\ e.status_code = status
    /\ e.message = ItemGet(data, w_message)
    /\ e.status = ItemGet(data, w_status)
    /\ e.details = ItemGet(data, w_details)

RendersUnknownError(e) ==
    \E i \in 1..Len(APIError_str(e)) : APIError_str(e)[i] = "Unknown error"

\* C13: each of the four operations, resumed by a response whose status is
\* not 200, fails with an APIError that has the status of the response as
\* status_code and the message, status and details of the body (None for
\* an absent key); made of the body {} it has message None and its string
\* contains "Unknown error".
C13_APIErrorOnFailureStatus ==
    \A c \in Answered :
        calls[c].response[1].status # 200
            => /\ IsAPIErrorOf(calls[c].outcome, calls[c].response[1].status,
                               calls[c].response[1].data)
               /\ calls[c].response[1].data = <<>>
                    => /\ calls[c].outcome.message = None
                       /\ RendersUnknownError(calls[c].outcome)

\* a details request answered by 400 with message, status and details
C13_Witness ==
    \E c \in Answered :
        /\ calls[c].op = "get_place_details"
        /\ calls[c].response[1].status = 400
        /\ calls[c].outcome.err = "APIError"
        /\ calls[c].outcome.status_code = 400
        /\ calls[c].outcome.message = <<"Invalid argument">>
        /\ calls[c].outcome.status = <<"INVALID_ARGUMENT">>
        /\ calls[c].outcome.details = <<"fieldViolations">>
        /\ ~RendersUnknownError(calls[c].outcome)

\* the body data has no item of that key
LacksKey(data, key) == \A i \in 1..Len(data) : data[i][1] # key

\* the two searches that were answered by a success response without places
SearchesWithoutPlaces ==
    {c \in Answered :
        /\ calls[c].op \in {"search_nearby_places", "search_places_by_text"}
        /\ calls[c].response[1].status = 200
        /\ LacksKey(calls[c].response[1].data, w_places)}

\* C14: search_nearby_places and search_places_by_text, answered by a
\* response of status 200 whose body has no places key, fail with an error
\* that is not an APIError; they return nothing, an empty list included.
C14_MissingPlacesIsDecodeFailure ==
    \A c \in SearchesWithoutPlaces :
        /\ ~calls[c].outcome.ok
        /\ calls[c].outcome.err # "APIError"

\* a nearby search answered by 200 and {} ends in a KeyError
C14_Witness ==
    \E c \in SearchesWithoutPlaces :
        /\ calls[c].op = "search_nearby_places"
        /\ calls[c].response[1].data = <<>>
        /\ calls[c].outcome.err = "KeyError"
        /\ calls[c].outcome.at = 133

\* the photo requests that have been called
PhotoCalls == {c \in DOMAIN calls : calls[c].pc # "idle" /\ calls[c].op = "get_photo_uri"}

InPhotoRange(bound) == bound[1] >= 1 /\ bound[1] <= 4800

\* the query parameters of the requests the call c has issued
QueriesOf(c) == {sent[i].request.params : i \in RequestsOf(c)}

BothBounds(p) ==
    /\ p.max_width # None /\ InPhotoRange(p.max_width)
    /\ p.max_height # None /\ InPhotoRange(p.max_height)

OnlyHeight(p) == p.max_width = None /\ p.max_height # None /\ InPhotoRange(p.max_height)

SizesIn(q) == {q[k] : k \in DOMAIN q \cap {"maxWidthPx", "maxHeightPx"}}

Smaller(a, b) == IF a < b THEN a ELSE b

\* C16: when get_photo_uri is given both max_width and max_height, the
\* size its request asks for is the minimum of the two.
C16_MinimumIsUsed ==
    \A c \in PhotoCalls :
        BothBounds(calls[c].params)
            => \A q \in QueriesOf(c) :
                  SizesIn(q) = {Smaller(calls[c].params.max_width[1], calls[c].params.max_height[1])}

\* the bounds of the photo request are refused by a check of the parameters
BadPhotoBounds(p) ==
    \/ p.max_width = None /\ p.max_height = None
    \/ p.max_width # None /\ ~InPhotoRange(p.max_width)
    \/ p.max_height # None /\ ~InPhotoRange(p.max_height)

\* C17: get_photo_uri fails with a validation error when both bounds are
\* absent and when a given bound is outside [1,4800] (a valid width with an
\* out-of-range height included); every other combination passes the
\* checks and reaches the request.
C17_PhotoBoundsChecked ==
    \A c \in PhotoCalls :
        IF BadPhotoBounds(calls[c].params)
        THEN FailedValidation(calls[c]) /\ calls[c].outcome.at \in {351, 355, 359}
        ELSE ~FailedValidation(calls[c]) /\ QueriesOf(c) # {}

\* width 100 with height 4801 fails on the height
C17_Witness ==
    \E c \in PhotoCalls :
        /\ calls[c].params.max_width = <<100>>
        /\ calls[c].params.max_height = <<4801>>
        /\ FailedValidation(calls[c])
        /\ calls[c].outcome.at = 359
        /\ QueriesOf(c) = {}

\* the nearby searches that have been called
NearbySearches == {c \in DOMAIN calls : calls[c].pc # "idle" /\ calls[c].op = "search_nearby_places"}

\* text is the upper-case spelling of the word
IsUpperCased(text, word) ==
    /\ Len(text) = Len(word)
    /\ \A i \in 1..Len(text) : IsUpperChar(text[i]) /\ LowerChar(text[i]) = word[i]

\* the list sent for a type filter: the filter, or the empty list
SentFilter(list, filter) == list = (IF filter = None THEN <<>> ELSE filter[1])

\* C18: search_nearby_places fails with a validation error for every
\* max_num_results outside [1,20] and passes that check for every value in
\* [1,20]; the body of its request has maxResultCount equal to the value
\* given, the area under locationRestriction.circle, the rank preference in
\* upper case and an empty list for each absent type filter.
C18_NearbyRequest ==
    \A c \in NearbySearches :
        /\ FailedAt(calls[c], 108)
              <=> (calls[c].params.max_num_results < 1 \/ calls[c].params.max_num_results > 20)
        /\ \A json \in BodiesOf(c) :
              /\ json.maxResultCount = calls[c].params.max_num_results
              /\ DOMAIN json.locationRestriction = {"circle"}
              /\ json.locationRestriction.circle = CircularArea_to_api_format(calls[c].params.area)
              /\ IsUpperCased(json.rankPreference, calls[c].params.rank_by)
              /\ SentFilter(json.includedTypes, calls[c].params.included_types)
              /\ SentFilter(json.excludedTypes, calls[c].params.excluded_types)
              /\ SentFilter(json.includedPrimaryTypes, calls[c].params.included_primary_types)
              /\ SentFilter(json.excludedPrimaryTypes, calls[c].params.excluded_primary_types)

\* a nearby search for 20 results ranked by popularity without type filters
C18_Witness ==
    \E c \in NearbySearches :
        /\ calls[c].params.max_num_results = 20
        /\ calls[c].params.included_types = None
        /\ calls[c].params.excluded_primary_types = None
        /\ \E json \in BodiesOf(c) :
              /\ json.maxResultCount = 20
              /\ json.rankPreference = <<"P", "O", "P", "U", "L", "A", "R", "I", "T", "Y">>
              /\ json.includedTypes = <<>>
              /\ json.excludedPrimaryTypes = <<>>
              /\ json.locationRestriction.circle.radius = 500

\* the text searches that have returned on a success response
ReturnedTextSearches ==
    {c \in Answered :
        /\ calls[c].op = "search_places_by_text"
        /\ calls[c].response[1].status = 200
        /\ calls[c].outcome.ok}

\* the continuation token of a response body, None when it has none
TokenOf(data) ==
    IF LacksKey(data, w_nextPageToken) THEN None
    ELSE <<data[CHOOSE i \in 1..Len(data) : data[i][1] = w_nextPageToken][2]>>

\* C19: the second element of what search_places_by_text returns on a
\* success response is the continuation token of that response, and None
\* when the response has none, whatever next_page_token the caller passed.
C19_TokenOfResponse ==
    \A c \in ReturnedTextSearches :
        /\ Len(calls[c].outcome.val) = 2
        /\ calls[c].outcome.val[2] = TokenOf(calls[c].response[1].data)

\* called with the token page1 and answered without a token: None is returned
C19_Witness ==
    \E c \in ReturnedTextSearches :
        /\ calls[c].params.next_page_token = <<"page1">>
        /\ LacksKey(calls[c].response[1].data, w_nextPageToken)
        /\ calls[c].outcome.val[2] = None

\* the names requested beside the wildcard
BesideWildcard == Requested \ {Star}

ConcurrentCallers == {1, 2}

ConcurrentNearbyParams ==
    {p \in NearbyParams :
        /\ p.fields = <<f_rating>>
        /\ p.max_num_results \in {20, 21}
        /\ p.included_types = None /\ p.excluded_types = None
        /\ p.included_primary_types = None /\ p.excluded_primary_types = None
        /\ p.rank_by = <<"d", "i", "s", "t", "a", "n", "c", "e">>}

ConcurrentTextParams ==
    {p \in TextParams :
        /\ p.query = "pizza"
        /\ p.fields = <<f_rating>>
        /\ p.included_type = None
        /\ p.bias_area = None
        /\ p.restrict_area \in {None, <<TheCircle>>}
        /\ p.page_size = 20
        /\ p.min_rating = None
        /\ p.price_levels = None
        /\ p.rank_by = <<"d", "i", "s", "t", "a", "n", "c", "e">>}

ConcurrentDetailsParams == {p \in DetailsParams : p.fields \in {<<f_rating>>, <<Star>>}}

ConcurrentPhotoParams ==
    {p \in PhotoParams : p.max_width = <<100>> /\ p.max_height \in {None, <<50>>, <<4801>>}}

InitConcurrent ==
    /\ client = Client_init(<<GoodApiKey>>, None).val
    /\ calls = [c \in ConcurrentCallers |-> Idle]
    /\ sent = <<>>
    /\ NoConversion

NextConcurrent ==
    \/ \E c \in ConcurrentCallers : SearchNearbyPlaces(c, ConcurrentNearbyParams)
    \/ \E c \in ConcurrentCallers : SearchNearbyPlacesResumed(c)
    \/ \E c \in ConcurrentCallers : SearchPlacesByText(c, ConcurrentTextParams)
    \/ \E c \in ConcurrentCallers : SearchPlacesByTextResumed(c)
    \/ \E c \in ConcurrentCallers : GetPlaceDetails(c, ConcurrentDetailsParams)
    \/ \E c \in ConcurrentCallers : GetPlaceDetailsResumed(c)
    \/ \E c \in ConcurrentCallers : GetPhotoUri(c, ConcurrentPhotoParams)
    \/ \E c \in ConcurrentCallers : GetPhotoUriResumed(c)

SpecConcurrent == InitConcurrent /\ [][NextConcurrent]_vars

(***************************************************************************)
(* Properties of concurrent calls (checked under SpecConcurrent)           *)
(***************************************************************************)
\* the client as its constructor leaves it
ConstructedClient == [api_key |-> GoodApiKey, session |-> "aiohttp.ClientSession"]

\* what the operation name does up to its await when it is the only call
\* on the constructed client, for every order in which the set of the
\* fields may be iterated
AloneUpToAwait(name, p) ==
    CASE name = "search_nearby_places" ->
            {search_nearby_places_begin(ConstructedClient, p, o[1], o[2]) : o \in MaskOrders(p.fields)}
      [] name = "search_places_by_text" ->
            {search_places_by_text_begin(ConstructedClient, p, o[1], o[2]) : o \in MaskOrders(p.fields)}
      [] name = "get_place_details" ->
            {get_place_details_begin(ConstructedClient, p, o[1], o[2]) : o \in MaskOrders(p.fields)}
      [] name = "get_photo_uri" -> {get_photo_uri_begin(ConstructedClient, p)}

\* what the operation name makes of the response when it is the only call
AloneFromResponse(name, status, data) ==
    CASE name = "search_nearby_places" -> search_nearby_places_end(status, data)
      [] name = "search_places_by_text" -> search_places_by_text_end(status, data)
      [] name = "get_place_details" -> get_place_details_end(status, data)
      [] name = "get_photo_uri" -> get_photo_uri_end(status, data)

\* the requests the call c has issued, in the order of their issue
RequestsInOrder(c) ==
    LET mine == SelectSeq(sent, LAMBDA m : m.caller = c) IN
    [i \in 1..Len(mine) |-> mine[i].request]

\* the call went as b, the run of its operation alone, goes up to the await
SameUpToAwait(c, call, b) ==
    /\ RequestsInOrder(c) = b.requests
    /\ (call.response = None /\ call.pc = "done") <=> b.raised
    /\ call.response = None => call.outcome = b.outcome

\* the call ended as its operation alone ends on the same response
SameFromResponse(call) ==
    call.response # None
        => /\ call.pc = "done"
           /\ call.outcome = AloneFromResponse(call.op, call.response[1].status,
                                                call.response[1].data)

SameAsAlone(c, call) ==
    /\ \E b \in AloneUpToAwait(call.op, call.params) : SameUpToAwait(c, call, b)
    /\ SameFromResponse(call)

\* C20: however the calls that run concurrently on one client are
\* interleaved at their awaits, every call issues the request and ends in
\* the result or error of the same call running alone, and the client keeps
\* the API key and the session it was constructed with.
C20_CallsDoNotInterfere ==
    /\ client = ConstructedClient
    /\ \A c \in DOMAIN calls : calls[c].pc # "idle" => SameAsAlone(c, calls[c])

\* the call 1 was suspended in a text search while the call 2, begun after
\* it, got the URI of a photo; the client is as constructed
C20_Witness ==
    /\ DOMAIN calls = {1, 2}
    /\ Len(sent) = 2
    /\ sent[1].caller = 1 /\ sent[2].caller = 2
    /\ calls[1].pc = "awaiting" /\ calls[1].op = "search_places_by_text"
    /\ calls[2].pc = "done" /\ calls[2].op = "get_photo_uri"
    /\ calls[2].outcome.ok
    /\ calls[2].outcome.val = "https://lh3.example.org/p1"
    /\ sent[1].request.headers["X-Goog-Api-Key"] = GoodApiKey
    /\ sent[2].request.headers["X-Goog-Api-Key"] = GoodApiKey
    /\ client = ConstructedClient

====
